---- MODULE Spec2Model ----
(***************************************************************************)
(* State-machine model of the egdata browser extension:                    *)
(*   - LibrarySyncService (library-sync service): paginated library fetch, *)
(*     batched bulk fetch, clear-and-replace save into the 'library-items' *)
(*     IndexedDB store, the 'library-sync' alarm;                          *)
(*   - the background message listener and its helpers;                    *)
(*   - the content script's card scan and mutation observer.               *)
(* Every step is the code between two awaits of one asynchronous function. *)
(***************************************************************************)
EXTENDS Integers, Sequences, FiniteSets, TLC

\* ---------------------------------------------------------------- bounds
\* Number of cursors (pages behind the first one) the library server knows.
MaxCursor == 2
\* Cap on the records one syncLibrary run accumulates (a cyclic cursor chain
\* would otherwise grow allRecords without bound).
MaxRecs == 4
\* Cap on the login tabs counted as pending at once.
MaxTabs == 1
\* Cap on the 'getOwnedSlugs' messages of the content script awaiting a reply.
MaxRequests == 1
\* Cap on the timeouts of the mutation observer pending at once.
MaxTimers == 1
\* Longest batch of mutation records delivered to the observer.
MaxBatch == 2
\* Longest id list handed to fetchBulkData on its own (two full batches and
\* one more id).
MaxIds == 201

\* ------------------------------------------------------- program constants
BATCH_SIZE == 100

\* ---------------------------------------------------------------- domains
\* The concurrent syncLibrary invocations that may be in flight.
Runs == {"r1", "r2"}
Cursors == 1..MaxCursor
\* A falsy nextCursor: the page is the last one.
NoCursor == 0
\* A falsy catalogItemId (filtered out by .filter(Boolean)).
NoId == 0
\* The catalogItemId carried by the first page; page c carries id c.
FirstId == MaxCursor + 1
Ids == 1..FirstId
\* currentLibrary = null
Null == [hasRecords |-> FALSE, records |-> <<>>, next |-> NoCursor, isNull |-> TRUE]
\* A library response without a records array.
InvalidLib == [hasRecords |-> FALSE, records |-> <<>>, next |-> NoCursor, isNull |-> FALSE]
FirstRecs == {<<>>, <<NoId, FirstId>>}
\* What getLibrary can return for the first page.
Libraries ==
    {InvalidLib} \cup
    {[hasRecords |-> TRUE, records |-> rs, next |-> n, isNull |-> FALSE] :
        rs \in FirstRecs, n \in 0..MaxCursor}
\* The asynchronous handlers of the background script that may be in flight.
Tasks == {"t1", "t2"}
\* `document` exists and is visible, exists and is hidden, or does not exist
\* (a service worker: evaluating document.hidden throws a ReferenceError).
DocStates == {"visible", "hidden", "absent"}

\* The records of the page behind cursor c.
PageRecords(c) == <<c>>

VARIABLES
    \* ---- LibrarySyncService
    db,              \* this.db: "opening" (null), "open", "error" (null)
    store,           \* committed contents of 'library-items' (set of item ids)
    work,            \* contents seen inside the running readwrite transaction
    txQueue,         \* readwrite transactions on the store, in creation order
    svcClient,       \* LibrarySyncService.epicClient # null
    currentLibrary,  \* LibrarySyncService.currentLibrary
    alarmSet,        \* the 'library-sync' alarm exists
    pc,              \* position of each syncLibrary run
    allRecords,      \* syncLibrary: allRecords (catalogItemIds, in order)
    nextCursor,      \* syncLibrary: nextCursor
    items,           \* the bulkData.items handed to saveToIndexedDB
    \* ---- background script
    epicClient,      \* epicClient # null
    isInitializing,  \* isInitializing
    loginTabs,       \* login tabs opened by initializeEpicClient, not yet loaded
    started,         \* runtime.onStartup or runtime.onInstalled has fired
    task,            \* the asynchronous handlers in flight, one record each
    running,         \* the task whose continuation is next in the microtask queue
    \* ---- environment
    docState,        \* `document` in the background context
    cookie,          \* EPIC_EG1 cookie present with a value
    srvNext,         \* the server's nextCursor of each page
    tab,             \* a browser tab: its URL, who set it, 'complete' delivered
    validation,      \* what Epic's cartOffersValidation says of each offer id
    \* ---- history, read by the properties only
    lastSaved,       \* the items of the save that committed last (initially the store)
    lastCommitter,   \* run whose save committed last ("init" before any)
    selfChanged,     \* the run has changed the committed store since it was called
    alarmOutcome,    \* what the last alarm firing did
    \* ---- content script (one store page)
    cards,           \* the offer cards of the page: slug shown, card id, indicators
    cache,           \* the 'offers' store: slug -> entry or NoEntry
    now,             \* Date.now()
    scan,            \* the findAndProcessOfferCards run in progress
    requests,        \* 'getOwnedSlugs' messages sent, not yet answered
    timers,          \* findAndProcessOfferCards runs scheduled by the observer
    records,         \* mutation records queued for the observer, not yet delivered
    lastBatch,       \* history: the batch last delivered and the runs it scheduled
    delivered        \* the reply handed to a message's callback that has not run yet

syncVars == <<db, store, work, txQueue, svcClient, currentLibrary, alarmSet,
              pc, allRecords, nextCursor, items>>
bgVars == <<epicClient, isInitializing, loginTabs, started, task, running>>
envVars == <<docState, cookie, srvNext, tab, validation>>
histVars == <<lastSaved, lastCommitter, selfChanged, alarmOutcome>>
csVars == <<cards, cache, now, scan, requests, timers, records, lastBatch, delivered>>
vars == <<syncVars, bgVars, envVars, histVars, csVars>>

\* ------------------------------------------------------ background: tasks
\* A null or empty string (a mapping's id or namespace), as a token sequence.
NullStr == <<>>
Slugs == {"a", "b"}
\* request.payload?.slugs: undefined, not an array, or an array of slugs.
NoSlugs == [present |-> FALSE, isArray |-> FALSE, list |-> <<>>]
NonArraySlugs == [present |-> TRUE, isArray |-> FALSE, list |-> <<>>]
ArraySlugs(l) == [present |-> TRUE, isArray |-> TRUE, list |-> l]
SlugLists == {<<>>, <<"a">>, <<"a", "b">>}
SlugPayloads == {NoSlugs, NonArraySlugs} \cup {ArraySlugs(l) : l \in SlugLists}
\* A handler slot: kind (which handler), pc (where it waits), ret (who called
\* initializeEpicClient), exc (message of the exception in flight), run (the syncLibrary call awaited), req (payload.slugs),
\* map (offerMappingsFromEgdata), reply (the sendResponse calls made),
\* net (a network request or a client initialization was made).
\* No URL (the handler serves no tab).
NoUrl == [site |-> "none", offers |-> <<>>, hash |-> ""]

IdleTask ==
    [kind |-> "none", pc |-> "idle", ret |-> "none", exc |-> "",
     run |-> "none", req |-> NoSlugs, map |-> <<>>, reply |-> <<>>, net |-> FALSE,
     url |-> NoUrl, redir |-> FALSE, act |-> "none", sent |-> {}, val |-> {}]

\* ---------------------------------------------------------------- helpers
\* allRecords.map(r => r.catalogItemId).filter(Boolean)
FilterIds(recs) == SelectSeq(recs, LAMBDA id : id # NoId)

Min(a, b) == IF a < b THEN a ELSE b

BatchesBug(ids) ==
    [k \in 1..(Len(ids) \div BATCH_SIZE) |->
        SubSeq(ids, (k - 1) * BATCH_SIZE + 1, k * BATCH_SIZE)]

\* items.slice(i, i + BATCH_SIZE) for i = 0, BATCH_SIZE, ...
Batches(ids) ==
    [k \in 1..((Len(ids) + BATCH_SIZE - 1) \div BATCH_SIZE) |->
        SubSeq(ids, (k - 1) * BATCH_SIZE + 1, Min(k * BATCH_SIZE, Len(ids)))]

SeqRange(s) == {s[i] : i \in 1..Len(s)}

\* What one bulk request can come back with.
BatchOutcomes == {"ok", "nonarray", "fail"}

\* results.reduce(...): the items of the array responses, keyed by item.id.
Combine(batches, res) ==
    UNION {SeqRange(batches[k]) : k \in {j \in 1..Len(batches) : res[j] = "ok"}}

\* ------------------------------------------------ LibrarySyncService: runs
Finished(r) == pc[r] \in {"returned", "skipped", "failed"}

\* The slot r can hold a new call: no call is in flight in it and no handler
\* still waits for the result of the last one.
Free(r) ==
    /\ pc[r] = "idle" \/ Finished(r)
    /\ \A t \in Tasks : ~(task[t].pc = "sync_wait" /\ task[t].run = r)

\* The slot a new call takes (which one does not matter: slots are names).
FreeSlot == IF Free("r1") THEN "r1" ELSE "r2"

AfterLoopTestBug(recs, cur) == IF FilterIds(recs) = <<>> THEN "skipped" ELSE "bulk"

\* Where syncLibrary waits next once the loop test is reached with cursor cur:
\* inside fetchLibraryPage (getEpicClient reads the cookie only when the
\* service has no client yet), or in fetchBulkData, or nowhere (early return).
AfterLoopTest(recs, cur) ==
    IF cur # NoCursor
    THEN IF svcClient THEN "getClientCookie" ELSE "getClient"
    ELSE IF FilterIds(recs) = <<>> THEN "skipped" ELSE "bulk"

\* Where syncLibrary goes when the loop is left by break.
AfterBreak(recs) == IF FilterIds(recs) = <<>> THEN "skipped" ELSE "bulk"

\* The run moves to l with locals recs and cur; the locals of a finished
\* call are gone.
Goto(r, l, recs, cur) ==
    /\ pc' = [pc EXCEPT ![r] = l]
    /\ allRecords' = [allRecords EXCEPT ![r] =
            IF l \in {"returned", "skipped", "failed"} THEN <<>> ELSE recs]
    /\ nextCursor' = [nextCursor EXCEPT ![r] =
            IF l \in {"returned", "skipped", "failed"} THEN NoCursor ELSE cur]

\* The run moves to l, locals as they are.
Step(r, l) == Goto(r, l, allRecords[r], nextCursor[r])

\* History: the store becomes s through run r.
NoteStore(r, s) ==
    selfChanged' = [selfChanged EXCEPT ![r] = selfChanged[r] \/ s # store]

\* syncLibrary(library) up to its first await.
SyncLibraryCall(r, lib) ==
    /\ Free(r)
    /\ selfChanged' = [selfChanged EXCEPT ![r] = FALSE]
    /\ items' = [items EXCEPT ![r] = {}]
    /\ IF ~lib.hasRecords
       THEN Goto(r, "failed", <<>>, NoCursor)
       ELSE Goto(r, AfterLoopTest(lib.records, lib.next), lib.records, lib.next)

\* A caller (the 'syncLibrary' message handler) invokes syncLibrary.
SyncLibrary(r, lib) ==
    /\ SyncLibraryCall(r, lib)
    /\ UNCHANGED <<db, store, work, txQueue, svcClient, currentLibrary, alarmSet>>
    /\ UNCHANGED <<bgVars, envVars, csVars, lastSaved, lastCommitter, alarmOutcome>>

\* getEpicClient: chrome.cookies.get returned (pc "getClient"), or the
\* service already had a client and getEpicClient's promise resolved
\* (pc "getClientCookie"); then fetchLibraryPage reads the cookie itself.
GetClientDone(r) ==
    /\ pc[r] = "getClient"
    /\ IF cookie
       THEN svcClient' = TRUE /\ Step(r, "pageCookie")
       ELSE svcClient' = svcClient /\ Step(r, "failed")
    /\ UNCHANGED <<db, store, work, txQueue, currentLibrary, alarmSet, items>>
    /\ UNCHANGED <<envVars, csVars, histVars>>

\* fetchLibraryPage: its own chrome.cookies.get returned.
PageCookieDone(r) ==
    /\ pc[r] \in {"pageCookie", "getClientCookie"}
    /\ Step(r, IF cookie THEN "pageFetch" ELSE "failed")
    /\ UNCHANGED <<db, store, work, txQueue, svcClient, currentLibrary, alarmSet, items>>
    /\ UNCHANGED <<envVars, csVars, histVars>>

\* What client.getLibrary can produce for a page.
PageOutcomes == {"page", "norecords", "nometadata", "error"}

\* client.getLibrary(cursor) returned or threw; the loop body and loop test.
PageFetchDone(r) ==
    /\ pc[r] = "pageFetch"
    /\ \E out \in PageOutcomes :
        LET c == nextCursor[r]
            more == allRecords[r] \o PageRecords(c)
            \* beyond MaxRecs the model stops recording (the code does not)
            recs == IF Len(more) <= MaxRecs THEN more ELSE allRecords[r]
        IN  CASE out = "page" -> Goto(r, AfterLoopTest(recs, srvNext[c]), recs, srvNext[c])
              [] out = "norecords" -> Step(r, AfterBreak(allRecords[r]))
              [] OTHER -> Step(r, "failed")
    /\ UNCHANGED <<db, store, work, txQueue, svcClient, currentLibrary, alarmSet, items>>
    /\ UNCHANGED <<envVars, csVars, histVars>>

\* fetchBulkData: every batch request came back; then saveToIndexedDB up to
\* its first await (the transaction is created and clear() is requested).
BulkDone(r) ==
    /\ pc[r] = "bulk"
    /\ LET bs == Batches(FilterIds(allRecords[r]))
       IN \E res \in [1..Len(bs) -> BatchOutcomes] :
            IF \E k \in 1..Len(bs) : res[k] = "fail"
            THEN Step(r, "failed") /\ UNCHANGED <<items, txQueue>>
            ELSE IF db # "open"
                 THEN Step(r, "failed") /\ UNCHANGED <<items, txQueue>>
                 ELSE /\ items' = [items EXCEPT ![r] = Combine(bs, res)]
                      /\ Step(r, "clear")
                      /\ txQueue' = Append(txQueue, r)
    /\ UNCHANGED <<db, store, work, svcClient, currentLibrary, alarmSet>>
    /\ UNCHANGED <<envVars, csVars, histVars>>

\* ------------------------------------- saveToIndexedDB: the transaction
\* IndexedDB runs the readwrite transactions on one store one at a time, in
\* the order they were created.
CanRunBug(r) == TRUE

CanRun(r) == txQueue # <<>> /\ Head(txQueue) = r

Dequeue(r) == SelectSeq(txQueue, LAMBDA q : q # r)

ClearBug(w) == w

\* store.clear() inside the transaction.
Clear(w) == {}

CommittedAfterClearBug(s) == {}

\* What readers of the store see once clear() has run inside the readwrite
\* transaction: nothing is committed yet.
CommittedAfterClear(s) == s

PutAllBug(w, its) == w

\* store.put(data) for every value of items (keyPath 'id').
PutAll(w, its) == w \cup its

\* A request of the transaction fails: IndexedDB aborts the transaction and
\* rolls its writes back; the awaited promise rejects and the catch rethrows.
Abort(r) ==
    /\ work' = store
    /\ txQueue' = Dequeue(r)
    /\ Step(r, "failed")
    /\ UNCHANGED <<store, items, lastSaved, lastCommitter, selfChanged>>

\* await store.clear() settled; then every store.put is requested.
ClearDone(r) ==
    /\ pc[r] = "clear"
    /\ CanRun(r)
    /\ \E ok \in BOOLEAN :
        IF ok
        THEN /\ work' = Clear(work)
             /\ store' = CommittedAfterClear(store)
             /\ NoteStore(r, store')
             /\ Step(r, "puts")
             /\ UNCHANGED <<txQueue, items, lastSaved, lastCommitter>>
        ELSE Abort(r)
    /\ UNCHANGED <<db, svcClient, currentLibrary, alarmSet>>
    /\ UNCHANGED <<envVars, csVars, alarmOutcome>>

\* await Promise.all(puts) settled (a put can fail only if there is one).
PutsDone(r) ==
    /\ pc[r] = "puts"
    /\ CanRun(r)
    /\ \E ok \in BOOLEAN :
        IF ok \/ items[r] = {}
        THEN /\ work' = PutAll(work, items[r])
             /\ Step(r, "commit")
             /\ UNCHANGED <<store, txQueue, items, lastSaved, lastCommitter, selfChanged>>
        ELSE Abort(r)
    /\ UNCHANGED <<db, svcClient, currentLibrary, alarmSet>>
    /\ UNCHANGED <<envVars, csVars, alarmOutcome>>

\* await tx.done settled: the transaction committed (or failed to).
TxDone(r) ==
    /\ pc[r] = "commit"
    /\ CanRun(r)
    /\ \E ok \in BOOLEAN :
        IF ok
        THEN /\ store' = work
             /\ work' = work
             /\ txQueue' = Dequeue(r)
             /\ NoteStore(r, store')
             /\ lastSaved' = items[r]
             /\ lastCommitter' = r
             /\ Step(r, "returned")
             /\ UNCHANGED items
        ELSE Abort(r)
    /\ UNCHANGED <<db, svcClient, currentLibrary, alarmSet>>
    /\ UNCHANGED <<envVars, csVars, alarmOutcome>>

\* initializeDB: openDB resolved.
DbOpened ==
    /\ db = "opening"
    /\ db' = "open"
    /\ UNCHANGED <<store, work, txQueue, svcClient, currentLibrary, alarmSet,
                   pc, allRecords, nextCursor, items>>
    /\ UNCHANGED <<envVars, csVars, histVars>>

\* initializeDB: openDB rejected; this.db stays null.
DbOpenFailed ==
    /\ db = "opening"
    /\ db' = "error"
    /\ UNCHANGED <<store, work, txQueue, svcClient, currentLibrary, alarmSet,
                   pc, allRecords, nextCursor, items>>
    /\ UNCHANGED <<envVars, csVars, histVars>>

\* ------------------------------------------------------- periodic sync
\* stopPeriodicSync: the alarm is cleared and currentLibrary forgotten.
StopPeriodicSyncLibrary(cur) == Null

\* startPeriodicSync(library): currentLibrary is set, stopPeriodicSync is
\* called, the initial sync is started and the alarm is created.
StartPeriodicSync(r, lib) ==
    /\ currentLibrary' = StopPeriodicSyncLibrary(lib)
    /\ SyncLibraryCall(r, lib)
    /\ alarmSet' = TRUE
    /\ UNCHANGED <<db, store, work, txQueue, svcClient>>
    /\ UNCHANGED <<envVars, csVars, lastSaved, lastCommitter, alarmOutcome>>

\* The chrome.alarms.onAlarm listener, for the 'library-sync' alarm.
OnAlarm ==
    /\ alarmSet
    /\ IF ~currentLibrary.isNull
       THEN /\ \E r \in Runs : SyncLibraryCall(r, currentLibrary)
            /\ alarmOutcome' = "synced"
       ELSE /\ alarmOutcome' = "ignored"
            /\ UNCHANGED <<pc, allRecords, nextCursor, items, selfChanged>>
    /\ UNCHANGED <<db, store, work, txQueue, svcClient, currentLibrary, alarmSet>>
    /\ UNCHANGED <<envVars, csVars, lastSaved, lastCommitter>>

\* ------------------------------------------------------------- environment
\* The user logs in to or out of the store: the EPIC_EG1 cookie changes.
CookieChange ==
    /\ cookie' = ~cookie
    /\ UNCHANGED <<syncVars, bgVars, docState, srvNext, tab, validation, histVars, csVars>>

\* ------------------------------------------- background: message replies
E_NoCookie == "Epic Games authentication cookie not found"
E_TokenFail == "Failed to get Epic Games token"
E_InitFail == "Failed to initialize Epic Games client"
E_NoSlugs == "No slugs provided"
E_Egdata == "Failed to fetch offer IDs from egdata.app: <status>"
\* message of the ReferenceError thrown where `document` does not exist
E_NoDocument == "document is not defined"
\* message of an error thrown by fetch, response.json()/text(), the GraphQL
\* client or chrome.cookies.get
E_Thrown == "<message of the thrown error>"
\* message of the error syncLibrary rejected with
E_Sync == "<message of the sync error>"

\* sendResponse payloads
TokenReply == [type |-> "token", ownedSlugs |-> <<>>, error |-> ""]
LibraryReply == [type |-> "library", ownedSlugs |-> <<>>, error |-> ""]
SuccessReply == [type |-> "success", ownedSlugs |-> <<>>, error |-> ""]
ErrorReply(msg) == [type |-> "error", ownedSlugs |-> <<>>, error |-> msg]
OwnedReply(owned) == [type |-> "owned", ownedSlugs |-> owned, error |-> ""]
\* sendResponse({ ownedSlugs: [], error })
OwnedError(msg) == [type |-> "ownedError", ownedSlugs |-> <<>>, error |-> msg]

SendBug(tk, resp) == [tk EXCEPT !.pc = "done", !.map = <<>>]

\* sendResponse(resp), after which the handler ends.
Send(tk, resp) == [tk EXCEPT !.reply = Append(@, resp), !.pc = "done", !.map = <<>>]

\* The handler ends without a sendResponse from here.
End(tk) == [tk EXCEPT !.pc = "done", !.map = <<>>]

TaskFree(t) == task[t].pc = "idle"

NewTask(k) == [IdleTask EXCEPT !.kind = k]

\* ------------------------------------------ getOwnedSlugs: the computation
\* `${namespace}-${id}`
OfferKey(ns, id) == ns \o <<"-">> \o id

\* o.id && o.namespace
HasIds(o) == o.id # NullStr /\ o.namespace # NullStr

RECURSIVE SelectMappings(_, _)
\* offerMappingsFromEgdata.filter(o => o.id && o.namespace)
\*   .filter(o => ownedEpicOffersSet.has(`${o.namespace}-${o.id}`))
SelectMappings(map, ownedKeys) ==
    IF map = <<>> THEN <<>>
    ELSE IF HasIds(Head(map)) /\ OfferKey(Head(map).namespace, Head(map).id) \in ownedKeys
         THEN <<Head(map)>> \o SelectMappings(Tail(map), ownedKeys)
         ELSE SelectMappings(Tail(map), ownedKeys)

\* epicOffersPayload: the offers sent to getOffersValidation
EpicOffersPayload(map) ==
    {[namespace |-> map[k].namespace, offerId |-> map[k].id] :
        k \in {j \in 1..Len(map) : HasIds(map[j])}}

\* ownedSlugsResult, given the fullyOwnedOffers of the validation result
OwnedSlugsResult(map, fullyOwned) ==
    LET ownedEpicOffersSet == {OfferKey(o.namespace, o.offerId) : o \in fullyOwned}
        sel == SelectMappings(map, ownedEpicOffersSet)
    IN  [k \in 1..Len(sel) |-> sel[k].slug]

\* What egdata can answer for a slug: ids known or not.
OfferIdVals == {NullStr, <<"i">>, <<"i", "-", "i">>}
NamespaceVals == {NullStr, <<"n">>, <<"n", "-", "i">>}
MappingsFor(list) ==
    {m \in [1..Len(list) -> [slug : Slugs, id : OfferIdVals, namespace : NamespaceVals]] :
        \A k \in 1..Len(list) : m[k].slug = list[k]}

\* epicClient.getOffersValidation({ offers: epicOffersPayload }) is called
\* by the handler tk.
CallValidation(tk) == [tk EXCEPT !.sent = EpicOffersPayload(tk.map)]

\* -------------------------------------------- initializeEpicClient
\* initializeEpicClient() is called by the handler tk (slot t) from `from`.
\* While isInitializing it returns at once; otherwise it sets the flag and
\* awaits chrome.cookies.get.
InitCall(t, tk, from) ==
    IF isInitializing
    THEN /\ task' = [task EXCEPT ![t] =
                [tk EXCEPT !.pc = "init_ret", !.ret = from, !.exc = "", !.net = TRUE]]
         /\ running' = t
         /\ UNCHANGED isInitializing
    ELSE /\ task' = [task EXCEPT ![t] =
                [tk EXCEPT !.pc = "init_cookie", !.ret = from, !.exc = "", !.net = TRUE]]
         /\ running' = "none"
         /\ isInitializing' = TRUE

\* The finally block: `if (!document.hidden) isInitializing = false`.
\* The value of isInitializing after it.
FinallyFlag(flag) == IF docState = "visible" THEN FALSE ELSE flag

\* The finally block throws where `document` does not exist.
FinallyThrows == docState = "absent"

\* initializeEpicClient returns to its caller (or throws msg into it).
InitReturn(t, msg) ==
    /\ task' = [task EXCEPT ![t] = [@ EXCEPT !.pc = "init_ret", !.exc = msg]]
    /\ running' = t

\* What chrome.cookies.get can come back with.
CookieOutcomes == IF cookie THEN {"value", "error"} ELSE {"none", "error"}

\* initializeEpicClient: chrome.cookies.get returned.
InitCookieDone(t) ==
    /\ running = "none"
    /\ task[t].pc = "init_cookie"
    /\ \E res \in CookieOutcomes :
        CASE res = "value" ->
                /\ epicClient' = TRUE
                /\ isInitializing' = FinallyFlag(isInitializing)
                /\ InitReturn(t, IF FinallyThrows THEN E_NoDocument ELSE "")
          [] res = "none" /\ docState = "visible" ->
                \* chrome.tabs.create is awaited
                /\ task' = [task EXCEPT ![t] = [@ EXCEPT !.pc = "init_tab"]]
                /\ UNCHANGED <<epicClient, isInitializing, running>>
          [] OTHER ->
                \* no cookie and a hidden or missing document, or a thrown
                \* error: catch, then finally
                /\ isInitializing' = FinallyFlag(isInitializing)
                /\ InitReturn(t, IF FinallyThrows THEN E_NoDocument ELSE "")
                /\ UNCHANGED epicClient
    /\ UNCHANGED <<loginTabs, started>>
    /\ UNCHANGED <<syncVars, envVars, csVars, histVars>>

\* initializeEpicClient: chrome.tabs.create returned a tab (its onUpdated
\* listener is added) or threw; then finally. The document is visible here.
InitTabCreated(t) ==
    /\ running = "none"
    /\ task[t].pc = "init_tab"
    /\ \E created \in BOOLEAN :
        loginTabs' = IF created /\ loginTabs < MaxTabs THEN loginTabs + 1 ELSE loginTabs
    /\ isInitializing' = FinallyFlag(isInitializing)
    /\ InitReturn(t, IF FinallyThrows THEN E_NoDocument ELSE "")
    /\ UNCHANGED <<epicClient, started>>
    /\ UNCHANGED <<syncVars, envVars, csVars, histVars>>

\* The login tab reports status 'complete': its listener removes the tab and
\* resets the flag.
LoginTabComplete ==
    /\ running = "none"
    /\ loginTabs > 0
    /\ loginTabs' = loginTabs - 1
    /\ isInitializing' = FALSE
    /\ UNCHANGED <<epicClient, started, task, running>>
    /\ UNCHANGED <<syncVars, envVars, csVars, histVars>>

\* ------------------------------------------------ fetchLibraryData
\* The frame of a background step that touches no run of the sync service.
NoSyncStep == UNCHANGED <<syncVars, envVars, csVars, histVars>>

\* The handler of slot t answers with resp and ends.
Answer(t, tk, resp) ==
    /\ task' = [task EXCEPT ![t] = Send(tk, resp)]
    /\ running' = t

\* The handler of slot t ends without answering (it serves no message).
Finish(t, tk) ==
    /\ task' = [task EXCEPT ![t] = End(tk)]
    /\ running' = t

\* The handler of slot t waits at l for an external call.
Await(t, tk, l) ==
    /\ task' = [task EXCEPT ![t] = [tk EXCEPT !.pc = l]]
    /\ running' = "none"

\* The ended handler's promise settles: its slot is empty again.
HandlerReturn(t) ==
    /\ running = t
    /\ task[t].pc = "done"
    /\ task' = [task EXCEPT ![t] = IdleTask]
    /\ running' = "none"
    /\ UNCHANGED <<epicClient, isInitializing, loginTabs, started>>
    /\ NoSyncStep

\* fetchLibraryData() threw msg, or returned lib, into the handler tk of
\* slot t: the rest of the handler up to its next await.
FldResult(t, tk, ok, lib, msg) ==
    CASE tk.kind = "getLibrary" ->
            /\ Answer(t, tk, IF ok THEN LibraryReply ELSE ErrorReply(msg))
            /\ NoSyncStep
      [] tk.kind = "syncLibrary" /\ ~ok ->
            /\ Answer(t, tk, ErrorReply(msg))
            /\ NoSyncStep
      [] tk.kind = "syncLibrary" /\ ok ->
            \* await librarySyncService.syncLibrary(library)
            \E r \in Runs :
                /\ r = FreeSlot
                /\ SyncLibraryCall(r, lib)
                /\ Await(t, [tk EXCEPT !.run = r], "sync_wait")
                /\ UNCHANGED <<db, store, work, txQueue, svcClient, currentLibrary, alarmSet>>
                /\ UNCHANGED <<envVars, csVars, lastSaved, lastCommitter, alarmOutcome>>
      [] tk.kind = "startLibrarySync" /\ ~ok ->
            \* startLibrarySync logs the error and returns
            /\ Finish(t, tk)
            /\ NoSyncStep
      [] OTHER ->
            \* startLibrarySync: librarySyncService.startPeriodicSync(library)
            \E r \in Runs :
                /\ r = FreeSlot
                /\ StartPeriodicSync(r, lib)
                /\ Finish(t, tk)

\* fetchLibraryData() is called by the handler tk of slot t.
FldCall(t, tk) ==
    IF ~epicClient
    THEN /\ InitCall(t, tk, "fetchLibraryData")
         /\ UNCHANGED <<epicClient, loginTabs>>
         /\ NoSyncStep
    ELSE /\ Await(t, [tk EXCEPT !.net = TRUE], "fld_cookie")
         /\ UNCHANGED <<epicClient, isInitializing, loginTabs>>
         /\ NoSyncStep

\* fetchLibraryData: its chrome.cookies.get returned or threw.
FldCookieDone(t) ==
    /\ running = "none"
    /\ task[t].pc = "fld_cookie"
    /\ \E res \in CookieOutcomes :
        CASE res = "value" -> Await(t, task[t], "fld_fetch") /\ NoSyncStep
          [] res = "none" -> FldResult(t, task[t], FALSE, InvalidLib, E_NoCookie)
          [] OTHER -> FldResult(t, task[t], FALSE, InvalidLib, E_Thrown)
    /\ UNCHANGED <<epicClient, isInitializing, loginTabs, started>>

\* The libraries the background's getLibrary returns: one without records,
\* one without ids and without cursor, one with ids and a cursor.
FetchedLibraries ==
    {InvalidLib,
     [hasRecords |-> TRUE, records |-> <<>>, next |-> NoCursor, isNull |-> FALSE],
     [hasRecords |-> TRUE, records |-> <<NoId, FirstId>>, next |-> 1, isNull |-> FALSE]}

\* fetchLibraryData: epicClient.getLibrary returned a library or threw.
FldFetchDone(t) ==
    /\ running = "none"
    /\ task[t].pc = "fld_fetch"
    /\ \/ \E lib \in FetchedLibraries : FldResult(t, task[t], TRUE, lib, "")
       \/ FldResult(t, task[t], FALSE, InvalidLib, E_Thrown)
    /\ UNCHANGED <<epicClient, isInitializing, loginTabs, started>>

\* The 'syncLibrary' handler: the awaited syncLibrary call settled. The
\* settled promise is consumed: its slot is empty again.
SyncAwaited(t) ==
    /\ running = "none"
    /\ task[t].pc = "sync_wait"
    /\ Finished(task[t].run)
    /\ Answer(t, [task[t] EXCEPT !.run = "none"],
              IF pc[task[t].run] = "failed" THEN ErrorReply(E_Sync) ELSE SuccessReply)
    /\ pc' = [pc EXCEPT ![task[t].run] = "idle"]
    /\ items' = [items EXCEPT ![task[t].run] = {}]
    /\ selfChanged' = [selfChanged EXCEPT ![task[t].run] = FALSE]
    /\ UNCHANGED <<epicClient, isInitializing, loginTabs, started>>
    /\ UNCHANGED <<db, store, work, txQueue, svcClient, currentLibrary, alarmSet,
                   allRecords, nextCursor>>
    /\ UNCHANGED <<envVars, csVars, lastSaved, lastCommitter, alarmOutcome>>

\* --------------------------------------------------- message handlers
\* 'getEpicToken' arrives: the handler runs up to chrome.cookies.get.
RecvGetEpicToken(t) ==
    /\ running = "none"
    /\ TaskFree(t)
    /\ Await(t, NewTask("getEpicToken"), "tok_cookie")
    /\ UNCHANGED <<epicClient, isInitializing, loginTabs, started>>
    /\ NoSyncStep

\* 'getEpicToken': chrome.cookies.get returned or threw.
TokCookieDone(t) ==
    /\ running = "none"
    /\ task[t].pc = "tok_cookie"
    /\ \E res \in CookieOutcomes :
        Answer(t, task[t], CASE res = "value" -> TokenReply
                             [] res = "none" -> ErrorReply(E_NoCookie)
                             [] OTHER -> ErrorReply(E_TokenFail))
    /\ UNCHANGED <<epicClient, isInitializing, loginTabs, started>>
    /\ NoSyncStep

\* 'getLibrary' arrives: the handler calls fetchLibraryData.
RecvGetLibrary(t) ==
    /\ running = "none"
    /\ TaskFree(t)
    /\ FldCall(t, NewTask("getLibrary"))
    /\ UNCHANGED started

\* 'syncLibrary' arrives: the handler calls fetchLibraryData.
RecvSyncLibrary(t) ==
    /\ running = "none"
    /\ TaskFree(t)
    /\ FldCall(t, NewTask("syncLibrary"))
    /\ UNCHANGED started

InvalidSlugsBug(p) == ~p.present \/ ~p.isArray

\* !slugs || !Array.isArray(slugs) || slugs.length === 0
InvalidSlugs(p) == ~p.present \/ ~p.isArray \/ Len(p.list) = 0

\* 'getOwnedSlugs' arrives with payload p: the handler answers at once when
\* the slugs are invalid, and otherwise runs up to the egdata fetch.
RecvGetOwnedSlugs(t, p) ==
    /\ running = "none"
    /\ TaskFree(t)
    /\ IF InvalidSlugs(p)
       THEN Answer(t, [NewTask("getOwnedSlugs") EXCEPT !.req = p], OwnedError(E_NoSlugs))
       ELSE Await(t, [NewTask("getOwnedSlugs") EXCEPT !.req = p, !.net = TRUE], "slugs_fetch")
    /\ UNCHANGED <<epicClient, isInitializing, loginTabs, started>>
    /\ NoSyncStep

FetchOutcomes == {"ok", "notok", "throw"}

\* 'getOwnedSlugs': the egdata fetch returned or threw.
SlugsFetchDone(t) ==
    /\ running = "none"
    /\ task[t].pc = "slugs_fetch"
    /\ \E res \in FetchOutcomes :
        CASE res = "ok" -> Await(t, task[t], "slugs_json")
          [] res = "notok" -> Await(t, task[t], "slugs_text")
          [] OTHER -> Answer(t, task[t], OwnedError(E_Thrown))
    /\ UNCHANGED <<epicClient, isInitializing, loginTabs, started>>
    /\ NoSyncStep

\* 'getOwnedSlugs': egdataResponse.text() of a non-OK response returned or threw.
SlugsTextDone(t) ==
    /\ running = "none"
    /\ task[t].pc = "slugs_text"
    /\ \E thrown \in BOOLEAN :
        Answer(t, task[t], OwnedError(IF thrown THEN E_Thrown ELSE E_Egdata))
    /\ UNCHANGED <<epicClient, isInitializing, loginTabs, started>>
    /\ NoSyncStep

\* 'getOwnedSlugs': egdataResponse.json() returned the mappings or threw;
\* then the client is initialized if there is none.
SlugsJsonDone(t) ==
    /\ running = "none"
    /\ task[t].pc = "slugs_json"
    /\ \/ /\ Answer(t, task[t], OwnedError(E_Thrown))
          /\ UNCHANGED <<epicClient, isInitializing, loginTabs, started>>
       \/ \E m \in MappingsFor(task[t].req.list) :
            IF ~epicClient
            THEN /\ InitCall(t, [task[t] EXCEPT !.map = m], "getOwnedSlugs")
                 /\ UNCHANGED <<epicClient, loginTabs, started>>
            ELSE /\ Await(t, CallValidation([task[t] EXCEPT !.map = m]), "slugs_validate")
                 /\ UNCHANGED <<epicClient, isInitializing, loginTabs, started>>
    /\ NoSyncStep

\* 'getOwnedSlugs': getOffersValidation returned or threw.
SlugsValidateDone(t) ==
    /\ running = "none"
    /\ task[t].pc = "slugs_validate"
    /\ \/ Answer(t, task[t], OwnedError(E_Thrown))
       \/ \E fullyOwned \in SUBSET task[t].sent :
            \* Epic reports, of the offers it was asked about, the owned ones
            Answer(t, [task[t] EXCEPT !.val = fullyOwned],
                   OwnedReply(OwnedSlugsResult(task[t].map, fullyOwned)))
    /\ UNCHANGED <<epicClient, isInitializing, loginTabs, started>>
    /\ NoSyncStep

\* ----------------------------------------------------- startup handlers
\* runtime.onStartup fires: the listener calls initializeEpicClient.
OnStartup(t) ==
    /\ running = "none"
    /\ ~started
    /\ TaskFree(t)
    /\ started' = TRUE
    /\ InitCall(t, NewTask("startLibrarySync"), "onStartup")
    /\ UNCHANGED <<epicClient, loginTabs>>
    /\ NoSyncStep

\* The extension was installed or updated and the store tab opened by
\* runtime.onInstalled finished loading: its listener calls startLibrarySync.
OnInstalledTabComplete(t) ==
    /\ running = "none"
    /\ ~started
    /\ TaskFree(t)
    /\ started' = TRUE
    /\ FldCall(t, NewTask("startLibrarySync"))

\* initializeEpicClient returned (or threw) into its caller, which goes on
\* to its next await.
InitRet(t) ==
    /\ running = t
    /\ task[t].pc = "init_ret"
    /\ LET tk == [task[t] EXCEPT !.exc = "", !.ret = "none"]
           msg == IF task[t].exc # "" THEN task[t].exc ELSE E_InitFail
           bad == task[t].exc # "" \/ ~epicClient
           frame == UNCHANGED <<epicClient, isInitializing, loginTabs, started>>
       IN CASE task[t].ret = "fetchLibraryData" /\ bad ->
                    FldResult(t, tk, FALSE, InvalidLib, msg) /\ frame
            [] task[t].ret = "fetchLibraryData" /\ ~bad ->
                    Await(t, tk, "fld_cookie") /\ NoSyncStep /\ frame
            [] task[t].ret = "getOwnedSlugs" /\ bad ->
                    Answer(t, tk, OwnedError(msg)) /\ NoSyncStep /\ frame
            [] task[t].ret = "getOwnedSlugs" /\ ~bad ->
                    Await(t, CallValidation(tk), "slugs_validate") /\ NoSyncStep /\ frame
            [] task[t].ret = "purchase" /\ bad ->
                    \* the error is caught and logged by the purchase handler
                    Finish(t, [tk EXCEPT !.act = "failed"]) /\ NoSyncStep /\ frame
            [] task[t].ret = "purchase" /\ ~bad ->
                    Await(t, tk, "purchase_validate") /\ NoSyncStep /\ frame
            [] task[t].ret = "onStartup" /\ task[t].exc # "" ->
                    \* the listener's promise rejects: startLibrarySync is not called
                    Finish(t, tk) /\ NoSyncStep /\ frame
            [] OTHER ->
                    \* onStartup: await startLibrarySync()
                    FldCall(t, tk) /\ UNCHANGED started

\* ------------------------------------------- purchase-page handler
\* The parts of an id that `split('-')` leaves undefined.
Undefined == <<>>

OfferIds == {"i", "j"}

\* 'offers' parameters, each as its parts between dashes: two of the form
\* quantity-namespace-id, one without dashes, one with a dash inside its id.
OfferParams == {<<"1", "n", "i">>, <<"2", "n", "j">>, <<"x">>, <<"1", "n", "i", "j">>}

MaxOffers == 2

OfferParamLists == UNION {[1..n -> OfferParams] : n \in 0..MaxOffers}

Hashes == {"", "#h"}

HomeUrl == [site |-> "home", offers |-> <<>>, hash |-> ""]

\* The URLs a user opens: the store's home, and purchase pages.
UserUrls ==
    {HomeUrl} \cup [site : {"purchase"}, offers : OfferParamLists, hash : Hashes]

NoTab == [url |-> NoUrl, byHandler |-> FALSE, loaded |-> TRUE]

\* cartOffersValidation lists an offer id in one of its four lists, or in
\* none.
Verdicts ==
    {"none", "fullyOwnedOffers", "possiblePartialUpgradeOffers",
     "unablePartiallyUpgradeOffers", "conflictingOffers"}

Validations ==
    {v \in [OfferIds -> Verdicts] :
        /\ v["i"] \in {"none", "fullyOwnedOffers", "possiblePartialUpgradeOffers"}
        /\ v["j"] \in {"none", "unablePartiallyUpgradeOffers", "conflictingOffers"}}

NoValidation == [id \in OfferIds |-> "none"]

\* tab.url?.includes('store.epicgames.com/purchase')
IsPurchaseUrl(u) == u.site = "purchase"

\* const [, namespace, offerId] = offer.split('-')
ParseOffer(p) ==
    [namespace |-> IF Len(p) >= 2 THEN <<p[2]>> ELSE Undefined,
     offerId |-> IF Len(p) >= 3 THEN <<p[3]>> ELSE Undefined]

\* url.searchParams.getAll('offers').map(...)
ParseOffers(ps) == [k \in 1..Len(ps) |-> ParseOffer(ps[k])]

NonBuyableOffersBug(v) ==
    {<<id>> : id \in {x \in OfferIds : v[x] \notin {"none", "conflictingOffers"}}}

\* nonBuyableOffers: the offerIds of the four lists of the validation result
NonBuyableOffers(v) ==
    {<<id>> : id \in {x \in OfferIds : v[x] = "fullyOwnedOffers"}}
    \cup {<<id>> : id \in {x \in OfferIds : v[x] = "possiblePartialUpgradeOffers"}}
    \cup {<<id>> : id \in {x \in OfferIds : v[x] = "unablePartiallyUpgradeOffers"}}
    \cup {<<id>> : id \in {x \in OfferIds : v[x] = "conflictingOffers"}}

RECURSIVE BuyableOffersBug(_, _)
BuyableOffersBug(offers, nonBuyable) ==
    IF offers = <<>> THEN <<>>
    ELSE IF Head(offers).offerId \notin nonBuyable
         THEN <<Head(offers)>> \o BuyableOffersBug(Tail(offers), nonBuyable)
         ELSE Tail(offers)

RECURSIVE BuyableOffers(_, _)
\* offers.filter(offer => !nonBuyableOffers.has(offer.offerId))
BuyableOffers(offers, nonBuyable) ==
    IF offers = <<>> THEN <<>>
    ELSE IF Head(offers).offerId \notin nonBuyable
         THEN <<Head(offers)>> \o BuyableOffers(Tail(offers), nonBuyable)
         ELSE BuyableOffers(Tail(offers), nonBuyable)

\* A namespace or id inside a template literal: undefined reads "undefined".
TemplateText(x) == IF x = Undefined THEN "undefined" ELSE x[1]

\* `1-${offer.namespace}-${offer.offerId}`
FormatOffer(o) == <<"1", TemplateText(o.namespace), TemplateText(o.offerId)>>

\* The URL built for the buyable offers, with the hash of the original.
NewPurchaseUrl(buyable, url) ==
    [site |-> "purchase",
     offers |-> [k \in 1..Len(buyable) |-> FormatOffer(buyable[k])],
     hash |-> IF url.hash # "" THEN url.hash ELSE ""]

\* chrome.tabs.update(tabId, { url })
TabUpdated(u) == [url |-> u, byHandler |-> TRUE, loaded |-> FALSE]

\* The user opens a URL in the tab.
UserNavigates(u) ==
    /\ tab' = [url |-> u, byHandler |-> FALSE, loaded |-> FALSE]
    /\ UNCHANGED <<docState, cookie, srvNext, validation>>
    /\ UNCHANGED <<syncVars, bgVars, csVars, histVars>>

\* tabs.onUpdated reports status 'complete' for the tab: the handler runs
\* up to its first await, or returns when the URL is no purchase page or
\* has no offers.
TabComplete(t) ==
    /\ running = "none"
    /\ TaskFree(t)
    /\ ~tab.loaded
    /\ tab' = [tab EXCEPT !.loaded = TRUE]
    /\ LET tk == [NewTask("purchase") EXCEPT !.url = tab.url, !.redir = tab.byHandler]
       IN  IF ~IsPurchaseUrl(tab.url)
           THEN UNCHANGED <<task, running, isInitializing>>
           ELSE IF Len(ParseOffers(tab.url.offers)) = 0
           THEN Finish(t, [tk EXCEPT !.act = "nooffers"]) /\ UNCHANGED isInitializing
           ELSE IF ~epicClient
           THEN InitCall(t, tk, "purchase")
           ELSE Await(t, tk, "purchase_validate") /\ UNCHANGED isInitializing
    /\ UNCHANGED <<epicClient, loginTabs, started>>
    /\ UNCHANGED <<docState, cookie, srvNext, validation>>
    /\ UNCHANGED <<syncVars, csVars, histVars>>

\* The purchase handler: getOffersValidation returned or threw; the tab is
\* updated according to the buyable offers.
PurchaseValidateDone(t) ==
    /\ running = "none"
    /\ task[t].pc = "purchase_validate"
    /\ \E ok \in BOOLEAN :
        LET offers == ParseOffers(task[t].url.offers)
            buyableOffers == BuyableOffers(offers, NonBuyableOffers(validation))
        IN  CASE ~ok ->
                    /\ Finish(t, [task[t] EXCEPT !.act = "failed"])
                    /\ UNCHANGED tab
              [] ok /\ Len(buyableOffers) = 0 ->
                    /\ Finish(t, [task[t] EXCEPT !.act = "home"])
                    /\ tab' = TabUpdated(HomeUrl)
              [] ok /\ Len(buyableOffers) > 0 /\ Len(buyableOffers) < Len(offers) ->
                    /\ Finish(t, [task[t] EXCEPT !.act = "filtered"])
                    /\ tab' = TabUpdated(NewPurchaseUrl(buyableOffers, task[t].url))
              [] OTHER ->
                    /\ Finish(t, [task[t] EXCEPT !.act = "kept"])
                    /\ UNCHANGED tab
    /\ UNCHANGED <<epicClient, isInitializing, loginTabs, started>>
    /\ UNCHANGED <<docState, cookie, srvNext, validation>>
    /\ UNCHANGED <<syncVars, csVars, histVars>>

\* ------------------------------------------------- content script: data
\* const CACHE_DURATION = 1000 * 60 * 60 (one hour, in milliseconds)
CACHE_DURATION == 1000 * 60 * 60

\* The instants Date.now() takes: a start, one hour later, and 1 ms after that.
Times == {0, CACHE_DURATION, CACHE_DURATION + 1}

\* The card elements of the page, in document order.
CardElems == {"k1", "k2"}
CardOrder == <<"k1", "k2">>

\* The slugs cards can show, as character sequences (one is a prefix of the
\* other).
SlugX == <<"x">>
SlugXY == <<"x", "y">>
CardSlugs == {SlugX, SlugXY}

\* db.get(STORE_NAME, slug) === undefined
NoEntry == [present |-> FALSE, isOwned |-> FALSE, lastChecked |-> 0]
Entry(o, lc) == [present |-> TRUE, isOwned |-> o, lastChecked |-> lc]

\* The card has no '.egdata-owned-indicator' child.
NoIndicator == <<>>

\* `${slug}-${Date.now()}`: the id recorded on the card and its indicator.
UniqueId(slug) == slug \o <<"-", "t">>

\* str.startsWith(pre)
StartsWith(str, pre) == Len(pre) <= Len(str) /\ SubSeq(str, 1, Len(pre)) = pre

IdleScan == [pc |-> "idle", pos |-> 1, run |-> <<>>, check |-> <<>>, owned |-> <<>>]

\* updateCachedOfferData(slug, { isOwned }): the entry of slug afterwards.
WithOwned(e, o) == Entry(o, now)

\* updateCachedOfferData(slug, { id, namespace, offerId }): the entry of slug
\* afterwards (isOwned: existingData?.isOwned ?? false).
WithMapping(e) == Entry(IF e.present THEN e.isOwned ELSE FALSE, now)

AddOwnedIndicatorBug(card, slug) ==
    [card EXCEPT !.indicator = UniqueId(slug), !.count = @ + 1]

\* addOwnedIndicator(card, slug): the card afterwards. A card that has an
\* '.egdata-owned-indicator' child is left alone; otherwise the id is
\* recorded on the card and one indicator is appended.
AddOwnedIndicator(card, slug) ==
    IF card.count > 0 THEN card
    ELSE [card EXCEPT !.indicator = UniqueId(slug), !.count = @ + 1]

\* existingIndicator.remove(), when the card has an indicator: the card
\* afterwards (querySelector finds the first indicator only).
RemoveIndicator(card) ==
    IF card.count > 1 THEN [card EXCEPT !.count = @ - 1]
    ELSE [card EXCEPT !.count = 0, !.indicator = NoIndicator]

RECURSIVE CacheAfterProcessBug(_, _, _, _)
CacheAfterProcessBug(c, owned, cur, checked) ==
    IF cur = <<>> THEN c
    ELSE LET sl == Head(cur).slug
             c1 == [c EXCEPT ![sl] = WithOwned(c[sl], sl \in owned)]
         IN  CacheAfterProcessBug(c1, owned, Tail(cur), checked)

RECURSIVE CacheAfterProcess(_, _, _, _)
\* processOwnedSlugs(ownedSlugs, currentCards, checkedSlugs): the cache
\* afterwards, the cards taken in order.
CacheAfterProcess(c, owned, cur, checked) ==
    IF cur = <<>> THEN c
    ELSE LET sl == Head(cur).slug
             c1 == IF sl \in checked
                   THEN [c EXCEPT ![sl] = WithOwned(c[sl], sl \in owned)]
                   ELSE c
         IN  CacheAfterProcess(c1, owned, Tail(cur), checked)

RECURSIVE CardsAfterProcessBug(_, _, _)
CardsAfterProcessBug(cs, owned, cur) ==
    IF cur = <<>> THEN cs
    ELSE LET k == Head(cur).element
             sl == Head(cur).slug
             cs1 == [cs EXCEPT ![k] = AddOwnedIndicator(cs[k], sl)]
         IN  CardsAfterProcessBug(cs1, owned, Tail(cur))

RECURSIVE CardsAfterProcess(_, _, _)
\* processOwnedSlugs: the cards afterwards.
CardsAfterProcess(cs, owned, cur) ==
    IF cur = <<>> THEN cs
    ELSE LET k == Head(cur).element
             sl == Head(cur).slug
             cs1 == IF sl \in owned
                    THEN [cs EXCEPT ![k] = AddOwnedIndicator(cs[k], sl)]
                    ELSE cs
         IN  CardsAfterProcess(cs1, owned, Tail(cur))

RECURSIVE CacheAfterMappings(_, _)
\* The loop over response.offerMappings (slugs in a sequence).
CacheAfterMappings(c, slugs) ==
    IF slugs = <<>> THEN c
    ELSE CacheAfterMappings([c EXCEPT ![Head(slugs)] = WithMapping(c[Head(slugs)])],
                            Tail(slugs))

\* ------------------------------------------------ content script: the scan
IsExpiredBug(e, t) == e.present /\ t - e.lastChecked >= CACHE_DURATION

\* isExpired = cachedData && Date.now() - cachedData.lastChecked > CACHE_DURATION
IsExpired(e, t) == e.present /\ t - e.lastChecked > CACHE_DURATION

\* cachedData?.isOwned
CachedOwned(e) == e.present /\ e.isOwned

\* !cachedData || isExpired, in the else branch of cachedData?.isOwned
NeedsCheck(e, t) == ~CachedOwned(e) /\ (~e.present \/ IsExpired(e, t))

\* The existing indicator is kept and the card skipped:
\* existingIndicator && cardId && cardId.startsWith(slug)
IndicatorKept(ind, slug) == ind # NoIndicator /\ StartsWith(ind, slug)

\* clearOfferCards(): every indicator is removed from the DOM.
ClearOfferCards(cs) ==
    [k \in CardElems |-> [cs[k] EXCEPT !.indicator = NoIndicator, !.count = 0]]

ContentFrame == UNCHANGED <<syncVars, bgVars, envVars, histVars>>

\* A findAndProcessOfferCards call may begin (the model holds one at a time).
CanScan == scan.pc = "idle"

\* The model holds a bounded number of unanswered messages.
MaySend == Len(requests) < MaxRequests

\* The window 'load' event, or the URL-change timeout: clearOfferCards, then
\* findAndProcessOfferCards up to its first card.
LoadScan ==
    /\ CanScan
    /\ cards' = ClearOfferCards(cards)
    /\ scan' = [IdleScan EXCEPT !.pc = "loop"]
    /\ UNCHANGED <<cache, now, requests, timers, records, lastBatch, delivered>>
    /\ ContentFrame

\* A timeout set by the mutation observer expires: findAndProcessOfferCards.
TimerFires ==
    /\ timers > 0
    /\ CanScan
    /\ timers' = timers - 1
    /\ scan' = [IdleScan EXCEPT !.pc = "loop"]
    /\ UNCHANGED <<cards, cache, now, requests, records, lastBatch, delivered>>
    /\ ContentFrame

\* One iteration of the loop over the cards: the indicator check, the two
\* lists of cards, the cache lookup and the decision.
ScanCard ==
    /\ scan.pc = "loop"
    /\ scan.pos <= Len(CardOrder)
    /\ LET k == CardOrder[scan.pos]
           sl == cards[k].slug
           ind == cards[k].indicator
           e == cache[sl]
           oc == [element |-> k, slug |-> sl]
           run1 == IF \E j \in 1..Len(scan.run) : scan.run[j] = oc
                   THEN scan.run ELSE Append(scan.run, oc)
       IN IF IndicatorKept(ind, sl)
          THEN /\ scan' = [scan EXCEPT !.pos = @ + 1]
               /\ UNCHANGED cards
          ELSE /\ cards' = [cards EXCEPT ![k] = RemoveIndicator(cards[k])]
               /\ scan' = [scan EXCEPT
                    !.pos = @ + 1,
                    !.run = run1,
                    !.owned = IF CachedOwned(e) THEN Append(@, sl) ELSE @,
                    !.check = IF NeedsCheck(e, now) THEN Append(@, sl) ELSE @]
    /\ UNCHANGED <<cache, now, requests, timers, records, lastBatch, delivered>>
    /\ ContentFrame

\* After the loop: the cached owned slugs are processed (which can fail on
\* the 'offers' store and end the run), then slugsToCheck is sent.
ScanFinish ==
    /\ scan.pc = "loop"
    /\ scan.pos > Len(CardOrder)
    /\ scan' = IdleScan
    /\ \E stored \in BOOLEAN :
        LET ownedSet == SeqRange(scan.owned)
        IN  IF scan.owned # <<>> /\ ~stored
            THEN UNCHANGED <<cards, cache, requests>>
            ELSE /\ cache' = CacheAfterProcess(cache, ownedSet, scan.run, ownedSet)
                 /\ cards' = CardsAfterProcess(cards, ownedSet, scan.run)
                 /\ requests' = IF scan.check # <<>>
                                THEN Append(requests, [run |-> scan.run, slugs |-> scan.check])
                                ELSE requests
    /\ UNCHANGED <<now, timers, records, lastBatch, delivered>>
    /\ ContentFrame

\* No reply is waiting for its callback.
NoReply == [msg |-> 0, resp |-> [kind |-> "none", owned |-> {}, mapped |-> FALSE]]

\* What the callback of a message for slugs can be handed: lastError set, a
\* response with an error, or ownedSlugs with or without offerMappings.
Replies(slugs) ==
    [kind : {"lastError", "error"}, owned : {{}}, mapped : {FALSE}]
    \cup [kind : {"ok"}, owned : SUBSET SeqRange(slugs), mapped : BOOLEAN]

ReplyFailedBug(resp) == resp.kind = "lastError"

\* chrome.runtime.lastError is set, or response.error is
ReplyFailed(resp) == resp.kind # "ok"

\* The callback of the i-th unanswered 'getOwnedSlugs' message runs with
\* resp: it returns on lastError or an error; otherwise it stores the offer
\* mappings and processes the owned slugs.
Response(i, resp) ==
    /\ i \in 1..Len(requests)
    /\ requests' = [j \in 1..(Len(requests) - 1) |->
                        IF j < i THEN requests[j] ELSE requests[j + 1]]
    /\ IF ReplyFailed(resp)
       THEN UNCHANGED <<cards, cache>>
       ELSE LET c1 == IF resp.mapped
                      THEN CacheAfterMappings(cache, requests[i].slugs) ELSE cache
            IN  /\ cache' = CacheAfterProcess(c1, resp.owned, requests[i].run,
                                              SeqRange(requests[i].slugs))
                /\ cards' = CardsAfterProcess(cards, resp.owned, requests[i].run)
    /\ UNCHANGED <<now, scan, timers, records, lastBatch>>
    /\ ContentFrame

\* Time passes.
Tick ==
    /\ \E t \in Times : t > now /\ now' = t
    /\ UNCHANGED <<cards, cache, scan, requests, timers, records, lastBatch, delivered>>
    /\ ContentFrame

\* The page re-renders a card element with another offer.
Rerender(k) ==
    /\ \E sl \in CardSlugs \ {cards[k].slug} : cards' = [cards EXCEPT ![k].slug = sl]
    /\ UNCHANGED <<cache, now, scan, requests, timers, records, lastBatch, delivered>>
    /\ ContentFrame

\* ------------------------------------- content script: mutation observer
CardComponents == {"DiscoverOfferCard", "BrowseOfferCard", "VaultOfferCard"}

\* An added node: an Element or not, its data-component attribute ("none":
\* no such attribute), and the data-component values among its descendants.
TextNode == [element |-> FALSE, component |-> "none", inside |-> {}]
PlainDiv == [element |-> TRUE, component |-> "none", inside |-> {}]
OtherDiv == [element |-> TRUE, component |-> "Other", inside |-> {"Other"}]
DiscoverCard == [element |-> TRUE, component |-> "DiscoverOfferCard", inside |-> {}]
BrowseCard == [element |-> TRUE, component |-> "BrowseOfferCard", inside |-> {}]
VaultWrapper == [element |-> TRUE, component |-> "none", inside |-> {"VaultOfferCard"}]
Nodes == {TextNode, PlainDiv, OtherDiv, DiscoverCard, BrowseCard, VaultWrapper}

\* mutation.addedNodes
AddedLists == {<<>>, <<TextNode, VaultWrapper>>} \cup {<<n>> : n \in Nodes}

\* The mutation records the observer can be handed (attribute and
\* character-data records add no nodes).
Mutations ==
    {[type |-> "childList", addedNodes |-> a] : a \in AddedLists} \cup
    {[type |-> "attributes", addedNodes |-> <<>>],
     [type |-> "characterData", addedNodes |-> <<>>]}

\* Nothing delivered since the last mutation was queued.
NoBatch == [batch |-> <<>>, scheduled |-> 0]

\* node.hasAttribute("data-component") && one of the three card names
IsCardNode(n) == n.component \in CardComponents

\* node.querySelectorAll(...).length > 0
ContainsCards(n) == n.inside \cap CardComponents # {}

HitsBug(n) == IsCardNode(n)

\* The node sets hasNewCards.
Hits(n) == n.element /\ (IsCardNode(n) \/ ContainsCards(n))

RECURSIVE NodesHit(_)
\* The inner loop over addedNodes, left by break at the first hit.
NodesHit(ns) ==
    IF ns = <<>> THEN FALSE
    ELSE IF Hits(Head(ns)) THEN TRUE
    ELSE NodesHit(Tail(ns))

RECURSIVE HasNewCards(_, _)
\* The loop over the mutations; acc is hasNewCards so far.
HasNewCards(ms, acc) ==
    IF ms = <<>> THEN acc
    ELSE HasNewCards(Tail(ms),
            IF Head(ms).type = "childList" /\ NodesHit(Head(ms).addedNodes)
            THEN TRUE ELSE acc)

\* The page changes: a mutation record is queued for the observer.
MutationQueued(m) ==
    /\ Len(records) < MaxBatch
    /\ records' = Append(records, m)
    /\ lastBatch' = NoBatch
    /\ UNCHANGED delivered
    /\ UNCHANGED <<cards, cache, now, scan, requests, timers>>
    /\ ContentFrame

\* The MutationObserver callback runs with the queued records: setTimeout
\* is called once if hasNewCards, not at all otherwise.
ObserverCallback ==
    /\ records # <<>>
    /\ timers < MaxTimers
    /\ LET n == IF HasNewCards(records, FALSE) THEN 1 ELSE 0
       IN  /\ timers' = timers + n
           /\ lastBatch' = [batch |-> records, scheduled |-> n]
    /\ records' = <<>>
    /\ UNCHANGED delivered
    /\ UNCHANGED <<cards, cache, now, scan, requests>>
    /\ ContentFrame

\* ------------------------------------------------------------ specifications
\* What the store can hold when the extension starts (it persists).
InitStores == {{}, {1}}

\* The content script of a page that holds no indicator and scans nothing.
InitContentIdle ==
    /\ cards = [k \in CardElems |-> [slug |-> SlugX, indicator |-> NoIndicator, count |-> 0]]
    /\ cache = [sl \in CardSlugs |-> NoEntry]
    /\ now = 0
    /\ scan = IdleScan
    /\ requests = <<>>
    /\ timers = 0
    /\ records = <<>>
    /\ lastBatch = NoBatch
    /\ delivered = NoReply

\* The background script after its top-level code has run.
InitBackground ==
    /\ epicClient = FALSE
    /\ isInitializing = FALSE
    /\ loginTabs = 0
    /\ started = FALSE
    /\ task = [t \in Tasks |-> IdleTask]
    /\ running = "none"
    /\ tab = NoTab
    /\ validation = NoValidation

\* The cursor chains of this specification: every page behind a cursor is
\* the last one.
SyncChains == {[c \in Cursors |-> NoCursor]}

InitSync ==
    /\ db = "opening"
    /\ store \in InitStores
    /\ work = store
    /\ txQueue = <<>>
    /\ svcClient = FALSE
    /\ currentLibrary = Null
    /\ alarmSet = FALSE
    /\ pc = [r \in Runs |-> "idle"]
    /\ allRecords = [r \in Runs |-> <<>>]
    /\ nextCursor = [r \in Runs |-> NoCursor]
    /\ items = [r \in Runs |-> {}]
    /\ InitBackground
    /\ InitContentIdle
    /\ docState = "absent"
    /\ cookie \in BOOLEAN
    /\ srvNext \in SyncChains
    /\ lastSaved = store
    /\ lastCommitter = "init"
    /\ selfChanged = [r \in Runs |-> FALSE]
    /\ alarmOutcome = "none"

RunStep(r) ==
    \/ GetClientDone(r)
    \/ PageCookieDone(r)
    \/ PageFetchDone(r)
    \/ BulkDone(r)
    \/ ClearDone(r)
    \/ PutsDone(r)
    \/ TxDone(r)

\* The service under concurrent calls of syncLibrary.
NextSync ==
    \/ \E r \in Runs, lib \in Libraries : SyncLibrary(r, lib)
    \/ \E r \in Runs : RunStep(r) /\ UNCHANGED bgVars
    \/ DbOpened /\ UNCHANGED bgVars
    \/ DbOpenFailed /\ UNCHANGED bgVars
    \/ CookieChange

SpecSync == InitSync /\ [][NextSync]_vars

\* One step of the handler in slot t.
TaskStep(t) ==
    \/ HandlerReturn(t)
    \/ InitRet(t)
    \/ InitCookieDone(t)
    \/ InitTabCreated(t)
    \/ FldCookieDone(t)
    \/ FldFetchDone(t)
    \/ SyncAwaited(t)
    \/ TokCookieDone(t)
    \/ SlugsFetchDone(t)
    \/ SlugsTextDone(t)
    \/ SlugsJsonDone(t)
    \/ SlugsValidateDone(t)

\* A step of the sync service while the background script is between tasks.
ServiceStep ==
    /\ running = "none"
    /\ UNCHANGED bgVars
    /\ \/ \E r \in Runs : RunStep(r)
       \/ DbOpened
       \/ DbOpenFailed

\* The cursor chains of the message specification: finite ones and one that
\* leads back to itself.
MsgChains == {[c \in Cursors |-> NoCursor], [c \in Cursors |-> c]}

InitMsg ==
    /\ db = "opening"
    /\ store = {}
    /\ work = store
    /\ txQueue = <<>>
    /\ svcClient = FALSE
    /\ currentLibrary = Null
    /\ alarmSet = FALSE
    /\ pc = [r \in Runs |-> "idle"]
    /\ allRecords = [r \in Runs |-> <<>>]
    /\ nextCursor = [r \in Runs |-> NoCursor]
    /\ items = [r \in Runs |-> {}]
    /\ InitBackground
    /\ InitContentIdle
    /\ docState \in DocStates
    /\ cookie \in BOOLEAN
    /\ srvNext \in MsgChains
    /\ lastSaved = store
    /\ lastCommitter = "init"
    /\ selfChanged = [r \in Runs |-> FALSE]
    /\ alarmOutcome = "none"

\* No handler is in flight.
Quiet == \A u \in Tasks : task[u].pc = "idle"

\* The message listener serving requests, one at a time, with the sync
\* service behind it, while the cookie and the login tab change.
NextMsg ==
    \/ \E t \in Tasks : Quiet /\ RecvGetEpicToken(t)
    \/ \E t \in Tasks : Quiet /\ RecvGetLibrary(t)
    \/ \E t \in Tasks : Quiet /\ RecvSyncLibrary(t)
    \/ \E t \in Tasks, p \in SlugPayloads : Quiet /\ RecvGetOwnedSlugs(t, p)
    \/ \E t \in Tasks : TaskStep(t)
    \/ ServiceStep
    \/ LoginTabComplete
    \/ CookieChange

SpecMsg == InitMsg /\ [][NextMsg]_vars

\* The event loop runs every continuation that is ready: each handler and
\* each syncLibrary run takes its next step once its external call is back.
\* (Strong fairness: a ready continuation has to wait while another one
\* runs to its next await, and is served after it.)
SyncRunStep(r) == running = "none" /\ RunStep(r) /\ UNCHANGED bgVars

FairSpecMsg ==
    /\ SpecMsg
    /\ \A t \in Tasks : SF_vars(TaskStep(t))
    /\ \A r \in Runs : SF_vars(SyncRunStep(r))

\* One step of a startup handler in slot t.
StartupStep(t) ==
    \/ HandlerReturn(t)
    \/ InitRet(t)
    \/ InitCookieDone(t)
    \/ InitTabCreated(t)
    \/ FldCookieDone(t)
    \/ FldFetchDone(t)

\* The 'library-sync' alarm fires while the background is between tasks.
AlarmFires == running = "none" /\ OnAlarm /\ UNCHANGED bgVars

InitPeriodic ==
    /\ db = "opening"
    /\ store = {}
    /\ work = store
    /\ txQueue = <<>>
    /\ svcClient = FALSE
    /\ currentLibrary = Null
    /\ alarmSet = FALSE
    /\ pc = [r \in Runs |-> "idle"]
    /\ allRecords = [r \in Runs |-> <<>>]
    /\ nextCursor = [r \in Runs |-> NoCursor]
    /\ items = [r \in Runs |-> {}]
    /\ InitBackground
    /\ InitContentIdle
    /\ docState \in DocStates
    /\ cookie \in BOOLEAN
    /\ srvNext \in SyncChains
    /\ lastSaved = store
    /\ lastCommitter = "init"
    /\ selfChanged = [r \in Runs |-> FALSE]
    /\ alarmOutcome = "none"

\* The extension starting up (runtime.onStartup, or the tab of
\* runtime.onInstalled loading), the sync it starts, and the alarm firing.
NextPeriodic ==
    \/ \E t \in Tasks : OnStartup(t)
    \/ \E t \in Tasks : OnInstalledTabComplete(t)
    \/ \E t \in Tasks : StartupStep(t)
    \/ ServiceStep
    \/ AlarmFires
    \/ LoginTabComplete
    \/ CookieChange

SpecPeriodic == InitPeriodic /\ [][NextPeriodic]_vars

\* The mutation the page makes in the scan specification: a card is added
\* (and delivered to the observer before the next one).
ScanMutations == {[type |-> "childList", addedNodes |-> <<BrowseCard>>]}

\* The extension's side of the page is at rest: the service's database is
\* open and nothing runs in the background.
InitRest ==
    /\ db = "open"
    /\ store = {}
    /\ work = store
    /\ txQueue = <<>>
    /\ svcClient = FALSE
    /\ currentLibrary = Null
    /\ alarmSet = FALSE
    /\ pc = [r \in Runs |-> "idle"]
    /\ allRecords = [r \in Runs |-> <<>>]
    /\ nextCursor = [r \in Runs |-> NoCursor]
    /\ items = [r \in Runs |-> {}]
    /\ epicClient = FALSE
    /\ isInitializing = FALSE
    /\ loginTabs = 0
    /\ started = FALSE
    /\ task = [t \in Tasks |-> IdleTask]
    /\ running = "none"
    /\ tab = NoTab
    /\ validation = NoValidation
    /\ docState = "absent"
    /\ cookie = FALSE
    /\ srvNext = [c \in Cursors |-> NoCursor]
    /\ lastSaved = store
    /\ lastCommitter = "init"
    /\ selfChanged = [r \in Runs |-> FALSE]
    /\ alarmOutcome = "none"

\* A store page: its cards show any of the slugs, the offer cache holds
\* what earlier visits left.
InitContent ==
    /\ InitRest
    /\ cards \in [CardElems -> [slug : CardSlugs, indicator : {NoIndicator}, count : {0}]]
    /\ cache \in [CardSlugs -> {NoEntry, Entry(FALSE, 0), Entry(TRUE, 0)}]
    /\ now = 0
    /\ scan = IdleScan
    /\ requests = <<>>
    /\ timers = 0
    /\ records = <<>>
    /\ lastBatch = NoBatch
    /\ delivered = NoReply

\* The content script scanning a page while replies arrive, time passes
\* and the page re-renders its cards.
NextContent ==
    \/ MaySend /\ LoadScan
    \/ \E m \in ScanMutations : records = <<>> /\ MutationQueued(m)
    \/ ObserverCallback
    \/ MaySend /\ TimerFires
    \/ ScanCard
    \/ ScanFinish
    \/ \E i \in 1..Len(requests) : \E resp \in Replies(requests[i].slugs) :
            Response(i, resp) /\ UNCHANGED delivered
    \/ Tick
    \/ \E k \in CardElems : Rerender(k)

SpecContent == InitContent /\ [][NextContent]_vars

InitObserver == InitRest /\ InitContentIdle

\* The mutation observer receiving batches, and the scans it schedules.
NextObserver ==
    \/ \E m \in Mutations : MutationQueued(m)
    \/ ObserverCallback
    \/ MaySend /\ TimerFires
    \/ ScanCard
    \/ ScanFinish

SpecObserver == InitObserver /\ [][NextObserver]_vars

\* One step of a handler that needs the Epic client, in slot t.
ClientStep(t) ==
    \/ HandlerReturn(t)
    \/ InitRet(t)
    \/ InitCookieDone(t)
    \/ InitTabCreated(t)
    \/ FldCookieDone(t)
    \/ FldFetchDone(t)
    \/ SlugsFetchDone(t)
    \/ SlugsTextDone(t)
    \/ SlugsJsonDone(t)
    \/ SlugsValidateDone(t)

\* The slugs of the requests that need the client.
ClientPayloads == {ArraySlugs(<<"a">>)}

\* Requests that need the Epic client arriving while others are in flight;
\* the cookie stays as it was when the background started.
NextInit ==
    \/ \E t \in Tasks : RecvGetLibrary(t)
    \/ \E t \in Tasks, p \in ClientPayloads : RecvGetOwnedSlugs(t, p)
    \/ \E t \in Tasks : ClientStep(t)
    \/ LoginTabComplete

SpecInit == InitMsg /\ [][NextInit]_vars

\* One step of a purchase-page handler in slot t.
PurchaseStep(t) ==
    \/ HandlerReturn(t)
    \/ InitRet(t)
    \/ InitCookieDone(t)
    \/ InitTabCreated(t)
    \/ PurchaseValidateDone(t)

InitPurchase ==
    /\ db = "opening"
    /\ store = {}
    /\ work = store
    /\ txQueue = <<>>
    /\ svcClient = FALSE
    /\ currentLibrary = Null
    /\ alarmSet = FALSE
    /\ pc = [r \in Runs |-> "idle"]
    /\ allRecords = [r \in Runs |-> <<>>]
    /\ nextCursor = [r \in Runs |-> NoCursor]
    /\ items = [r \in Runs |-> {}]
    /\ epicClient = FALSE
    /\ isInitializing = FALSE
    /\ loginTabs = 0
    /\ started = FALSE
    /\ task = [t \in Tasks |-> IdleTask]
    /\ running = "none"
    /\ InitContentIdle
    /\ docState \in DocStates
    /\ cookie \in BOOLEAN
    /\ srvNext = [c \in Cursors |-> NoCursor]
    /\ tab = NoTab
    /\ validation \in Validations
    /\ lastSaved = store
    /\ lastCommitter = "init"
    /\ selfChanged = [r \in Runs |-> FALSE]
    /\ alarmOutcome = "none"

\* A tab the user opens pages in (one after the other has loaded and been
\* handled), the purchase-page handler serving its 'complete' events, with
\* Epic's verdict on each offer unchanged.
NextPurchase ==
    \/ \E u \in UserUrls : Quiet /\ tab.loaded /\ UserNavigates(u)
    \/ \E t \in Tasks : TabComplete(t)
    \/ \E t \in Tasks : PurchaseStep(t)
    \/ LoginTabComplete

SpecPurchase == InitPurchase /\ [][NextPurchase]_vars

\* The background's reply resp to the i-th unanswered message arrives.
Deliver(i, resp) ==
    /\ delivered = NoReply
    /\ delivered' = [msg |-> i, resp |-> resp]
    /\ UNCHANGED <<cards, cache, now, scan, requests, timers, records, lastBatch>>
    /\ ContentFrame

\* The callback of the message whose reply arrived runs.
Callback ==
    /\ delivered # NoReply
    /\ Response(delivered.msg, delivered.resp)
    /\ delivered' = NoReply

\* The content script on a page that is loaded and then navigated within,
\* with scans that begin while a message is unanswered: a scan that has
\* slugs to send waits until the model can hold its message. The page
\* re-renders between scans, and the hours pass while nothing is under way.
NextReply ==
    \/ LoadScan
    \/ ScanCard
    \/ (scan.check = <<>> \/ MaySend) /\ ScanFinish
    \/ \E i \in 1..Len(requests) : \E resp \in Replies(requests[i].slugs) : Deliver(i, resp)
    \/ Callback
    \/ scan.pc = "idle" /\ requests = <<>> /\ Tick
    \/ \E k \in CardElems : scan.pc = "idle" /\ Rerender(k)

SpecReply == InitObserver /\ [][NextReply]_vars

\* The cursor chains a library server can present: every page names any
\* page, itself included, or none as the next one.
PagingChains == [Cursors -> {NoCursor} \cup Cursors]

\* The service before its database has opened, in front of any server.
InitPaging ==
    /\ db = "opening"
    /\ store = {}
    /\ work = store
    /\ txQueue = <<>>
    /\ svcClient = FALSE
    /\ currentLibrary = Null
    /\ alarmSet = FALSE
    /\ pc = [r \in Runs |-> "idle"]
    /\ allRecords = [r \in Runs |-> <<>>]
    /\ nextCursor = [r \in Runs |-> NoCursor]
    /\ items = [r \in Runs |-> {}]
    /\ InitBackground
    /\ InitContentIdle
    /\ docState = "absent"
    /\ cookie \in BOOLEAN
    /\ srvNext \in PagingChains
    /\ lastSaved = store
    /\ lastCommitter = "init"
    /\ selfChanged = [r \in Runs |-> FALSE]
    /\ alarmOutcome = "none"

\* One step of the paging part of syncLibrary, up to the bulk fetch.
PagingStep(r) ==
    /\ \/ GetClientDone(r)
       \/ PageCookieDone(r)
       \/ PageFetchDone(r)
       \/ BulkDone(r)
    /\ UNCHANGED bgVars

\* syncLibrary called for any first page, one call at a time, against any
\* chain of cursors.
NextPaging ==
    \/ \E lib \in Libraries : (\A r \in Runs : Free(r)) /\ SyncLibrary(FreeSlot, lib)
    \/ \E r \in Runs : PagingStep(r)
    \/ CookieChange

SpecPaging == InitPaging /\ [][NextPaging]_vars

\* Every request the run waits for comes back (or fails) eventually.
FairSpecPaging == SpecPaging /\ \A r \in Runs : WF_vars(PagingStep(r))

\* The id lists of 1 to MaxIds distinct item ids.
IdLists == {[i \in 1..n |-> i] : n \in 1..MaxIds}

\* syncLibrary has fetched every page and calls fetchBulkData(itemIds) with
\* a list of any length; the database is open.
InitBulk ==
    /\ db = "open"
    /\ store = {}
    /\ work = store
    /\ txQueue = <<>>
    /\ svcClient = TRUE
    /\ currentLibrary = Null
    /\ alarmSet = FALSE
    /\ pc = [r \in Runs |-> IF r = "r1" THEN "bulk" ELSE "idle"]
    /\ \E ids \in IdLists : allRecords = [r \in Runs |-> IF r = "r1" THEN ids ELSE <<>>]
    /\ nextCursor = [r \in Runs |-> NoCursor]
    /\ items = [r \in Runs |-> {}]
    /\ InitBackground
    /\ InitContentIdle
    /\ docState = "absent"
    /\ cookie = TRUE
    /\ srvNext = [c \in Cursors |-> NoCursor]
    /\ lastSaved = store
    /\ lastCommitter = "init"
    /\ selfChanged = [r \in Runs |-> FALSE]
    /\ alarmOutcome = "none"

\* fetchBulkData on each id list.
NextBulk == \E r \in Runs : BulkDone(r) /\ UNCHANGED bgVars

SpecBulk == InitBulk /\ [][NextBulk]_vars

\* ------------------------------------------------------------------ claims
MessageKinds == {"getEpicToken", "getLibrary", "syncLibrary", "getOwnedSlugs"}

\* The handler of slot t serves a message and has not ended.
InFlight(t) == task[t].kind \in MessageKinds /\ task[t].pc \notin {"idle", "done"}

\* The handler of slot t has ended having called sendResponse exactly once.
Answered(t) == task[t].pc = "done" /\ Len(task[t].reply) = 1

SuccessTypes == {"token", "library", "success", "owned"}
ErrorTypes == {"error", "ownedError"}

RECURSIVE ChainEnds(_, _)
\* The cursor chain from c reaches a last page within n pages.
ChainEnds(c, n) ==
    IF c = NoCursor THEN TRUE
    ELSE IF n = 0 THEN FALSE
    ELSE ChainEnds(srvNext[c], n - 1)

FiniteChains == \A c \in Cursors : ChainEnds(c, MaxCursor)

Committing(r) == pc[r] = "commit" /\ pc'[r] = "returned"

C2_Original ==
    \A r \in Runs :
        (pc[r] \in {"returned", "skipped"} /\ \A q \in Runs \ {r} : pc[q] = "idle")
            => store = items[r]

\* C2 amended: a call that returns after saving (the library yielded at
\* least one item id) leaves the store holding exactly the items fetched,
\* until another save commits; a call for a library without item ids
\* returns without having changed the store.
C2_ClearedAndRepopulated ==
    \A r \in Runs :
        /\ (pc[r] = "returned" /\ lastCommitter = r) => store = items[r]
        /\ pc[r] = "skipped" => ~selfChanged[r]

C2_Witness ==
    \E r \in Runs :
        /\ pc[r] = "returned" /\ lastCommitter = r
        /\ items[r] # {} /\ selfChanged[r] /\ store = items[r]

C7_Original == \A t \in Tasks : InFlight(t) ~> Answered(t)

\* C7 (amended): no handler calls sendResponse twice or ends unanswered,
\* every answer is a success payload or an error payload with a message,
\* and when the server's cursor chain is finite every message is answered.
C7_AnsweredOnce ==
    /\ [](\A t \in Tasks :
            /\ Len(task[t].reply) <= 1
            /\ (task[t].kind \in MessageKinds /\ task[t].pc = "done") => Len(task[t].reply) = 1
            /\ \A k \in 1..Len(task[t].reply) :
                    \/ task[t].reply[k].type \in SuccessTypes /\ task[t].reply[k].error = ""
                    \/ task[t].reply[k].type \in ErrorTypes /\ task[t].reply[k].error # "")
    /\ (FiniteChains => \A t \in Tasks : InFlight(t) ~> Answered(t))

\* A 'syncLibrary' message answered with success after its run saved items,
\* under a finite cursor chain.
C7_Witness ==
    \E t \in Tasks :
        /\ task[t].kind = "syncLibrary" /\ Answered(t)
        /\ task[t].reply[1].type = "success"
        /\ FiniteChains /\ store # {}
\* The 'getOwnedSlugs' handler of slot t ends in this step.
SlugsAnswering(t) ==
    task[t].kind = "getOwnedSlugs" /\ task[t].pc # "done" /\ task'[t].pc = "done"

\* The answer is ownedSlugs: [] with a non-empty error string.
EmptyWithError(resp) ==
    resp.type = "ownedError" /\ resp.ownedSlugs = <<>> /\ resp.error # ""

\* C8: a 'getOwnedSlugs' request that fails (slugs missing, not an array or
\* empty; egdata response not OK; no Epic client after initialization; an
\* error thrown) is answered with ownedSlugs = [] and a non-empty error, and
\* one with missing, non-array or empty slugs is answered before any network
\* request or client initialization.
C8_FailuresAnswerEmpty ==
    [][\A t \in Tasks :
        /\ (task'[t].kind = "getOwnedSlugs" /\ task'[t].pc = "done") =>
                /\ Len(task'[t].reply) = 1
                /\ \/ EmptyWithError(task'[t].reply[1])
                   \/ task'[t].reply[1].type = "owned" /\ task'[t].reply[1].error = ""
                /\ (~task'[t].req.present \/ ~task'[t].req.isArray \/ task'[t].req.list = <<>>)
                        => /\ EmptyWithError(task'[t].reply[1])
                           /\ task'[t].reply[1].error = E_NoSlugs
                           /\ ~task'[t].net
        /\ (SlugsAnswering(t) /\ task[t].pc \in {"slugs_text", "slugs_fetch", "slugs_json"})
                => EmptyWithError(task'[t].reply[1])
        /\ (SlugsAnswering(t) /\ task[t].pc = "init_ret" /\ (~epicClient \/ task[t].exc # ""))
                => EmptyWithError(task'[t].reply[1])
        /\ (SlugsAnswering(t) /\ task[t].pc = "slugs_validate"
                /\ task'[t].reply[1].type = "owned")
                => epicClient]_vars

\* An empty slug list answered 'No slugs provided' with nothing requested,
\* when the client could not have been initialized anyway.
C8_Witness ==
    \E t \in Tasks :
        /\ task[t].kind = "getOwnedSlugs" /\ Answered(t)
        /\ task[t].req = ArraySlugs(<<>>)
        /\ task[t].reply[1] = OwnedError(E_NoSlugs)
        /\ ~task[t].net /\ ~epicClient /\ ~isInitializing
\* C4 (as stated): once startPeriodicSync has created the alarm (no client
\* calls stopPeriodicSync), no firing of the alarm goes by without starting
\* a syncLibrary run.
C4_Original == alarmSet => alarmOutcome # "ignored"

\* C6 (as stated): when startLibrarySync has ended, failed or not, the alarm
\* exists, and a firing of the alarm that follows a failed sync starts a
\* sync again.
C6_Original ==
    [][/\ \A t \in Tasks :
            (task[t].kind = "startLibrarySync" /\ task[t].pc # "done" /\ task'[t].pc = "done")
                => alarmSet'
       /\ ((\E r \in Runs : pc[r] = "failed") /\ alarmOutcome' # alarmOutcome)
                => alarmOutcome' = "synced"]_vars
\* The scan visits the next card in this step.
Visiting == scan.pc = "loop" /\ scan.pos <= Len(CardOrder) /\ scan'.pos = scan.pos + 1

\* The cache has no entry for the slug, or an entry with isOwned false whose
\* lastChecked is more than one hour old.
StaleOrMissing(sl) ==
    \/ ~cache[sl].present
    \/ ~cache[sl].isOwned /\ now - cache[sl].lastChecked > 3600000

AddsOfferCard(b) ==
    \E i \in 1..Len(b) :
        /\ b[i].type = "childList"
        /\ \E j \in 1..Len(b[i].addedNodes) :
            LET n == b[i].addedNodes[j]
            IN  /\ n.element
                /\ \/ n.component \in {"DiscoverOfferCard", "BrowseOfferCard", "VaultOfferCard"}
                   \/ n.inside \cap {"DiscoverOfferCard", "BrowseOfferCard", "VaultOfferCard"} # {}

\* C10: a batch of mutations schedules a findAndProcessOfferCards run iff
\* some childList mutation of it added an element that is or contains an
\* offer card; it schedules at most one; attribute and character-data
\* mutations alone schedule none.
C10_RescanOnNewCards ==
    /\ lastBatch.scheduled = (IF AddsOfferCard(lastBatch.batch) THEN 1 ELSE 0)
    /\ (\A i \in 1..Len(lastBatch.batch) : lastBatch.batch[i].type # "childList")
            => lastBatch.scheduled = 0

\* A batch whose first record changes an attribute and whose second adds a
\* text node and a wrapper around a card: one run is scheduled.
C10_Witness ==
    /\ lastBatch.batch = <<[type |-> "attributes", addedNodes |-> <<>>],
                           [type |-> "childList", addedNodes |-> <<TextNode, VaultWrapper>>]>>
    /\ lastBatch.scheduled = 1
    /\ timers = 1

\* The invocations of initializeEpicClient that are past the isInitializing
\* guard and have not returned.
PastGuard == {t \in Tasks : task[t].pc \in {"init_cookie", "init_tab"}}

\* The handler of slot t calls initializeEpicClient in this step and the
\* call returns at the guard.
ReturnsAtGuard(t) ==
    /\ task[t].pc \notin {"init_cookie", "init_tab", "init_ret"}
    /\ task'[t].pc = "init_ret"

\* C11 (as stated): at most one invocation of initializeEpicClient is past
\* the isInitializing guard at any time, and an invocation that starts while
\* isInitializing is true returns without reading the cookie, creating a
\* client or opening a tab.
C11_Original ==
    /\ [](Cardinality(PastGuard) <= 1)
    /\ [][\A t \in Tasks : ReturnsAtGuard(t) =>
            /\ isInitializing
            /\ epicClient' = epicClient
            /\ loginTabs' = loginTabs
            /\ isInitializing' = isInitializing]_vars

\* C12 (as stated): once every invocation of initializeEpicClient that
\* passed the guard has returned and every login tab has reported
\* 'complete', isInitializing is false, whatever the cookie, the document
\* and the errors thrown were.
C12_Original == (PastGuard = {} /\ loginTabs = 0) => ~isInitializing

\* C13 (as stated): while the EPIC_EG1 cookie is present, no request that
\* needs the Epic client is answered 'Failed to initialize Epic Games
\* client', however the requests interleave.
C13_Original ==
    cookie => \A t \in Tasks : \A k \in 1..Len(task[t].reply) :
                    task[t].reply[k].error # E_InitFail

\* The purchase handler of slot t ends in this step with the validation
\* result in hand.
PurchaseActs(t) ==
    /\ task[t].pc = "purchase_validate"
    /\ task'[t].pc = "done"
    /\ task'[t].act # "failed"

\* The offer's id is in none of the four lists of the validation result.
Buyable(o) == \A id \in OfferIds : o.offerId = <<id>> => validation[id] = "none"

\* Every 'offers' parameter has a quantity, a namespace and an id.
WellFormed(u) == \A k \in 1..Len(u.offers) : Len(u.offers[k]) >= 3

\* What the claim asks of the step in which the handler of slot t acts on
\* the offers of its URL.
ActsByBuyable(t) ==
    LET offers == ParseOffers(task[t].url.offers)
        all == \A k \in 1..Len(offers) : Buyable(offers[k])
        none == \A k \in 1..Len(offers) : ~Buyable(offers[k])
    IN  /\ all => tab' = tab
        /\ none => tab'.url = HomeUrl /\ tab'.byHandler
        /\ (~all /\ ~none) =>
                /\ IsPurchaseUrl(tab'.url)
                /\ tab'.byHandler
                /\ ParseOffers(tab'.url.offers) = SelectSeq(offers, Buyable)
                /\ tab'.url.hash = task[t].url.hash

\* C14 (as stated): for a purchase URL with at least one 'offers' parameter
\* and a successful validation, the tab is left alone when all offers are
\* buyable, sent to the store's home when none is, and otherwise sent to a
\* purchase URL whose offers are exactly the buyable ones, in order, with
\* the original hash.
C14_Original == [][\A t \in Tasks : PurchaseActs(t) => ActsByBuyable(t)]_vars

\* C14 (amended): the same, for URLs whose 'offers' parameters all have the
\* form quantity-namespace-id.
C14_ActsByBuyableOffers ==
    [][\A t \in Tasks : (PurchaseActs(t) /\ WellFormed(task[t].url)) => ActsByBuyable(t)]_vars

\* The handler has sent a tab that asked for a non-buyable and a buyable
\* offer, with a hash, to the purchase URL of the buyable one.
C14_Witness ==
    \E t \in Tasks :
        /\ task[t].pc = "done" /\ task[t].act = "filtered"
        /\ task[t].url = [site |-> "purchase",
                          offers |-> <<<<"1", "n", "i">>, <<"2", "n", "j">>>>,
                          hash |-> "#h"]
        /\ validation["i"] = "possiblePartialUpgradeOffers" /\ validation["j"] = "none"
        /\ tab.url = [site |-> "purchase", offers |-> <<<<"1", "n", "j">>>>, hash |-> "#h"]
        /\ tab.byHandler /\ ~tab.loaded

\* C15: the 'complete' event of a page the handler sent the tab to causes
\* no further update of the tab: the handler it starts, if any, leaves the
\* tab as it is, and the store's home starts none.
C15_NoRedirectLoop ==
    [][/\ \A t \in Tasks :
            (task[t].pc = "purchase_validate" /\ task[t].redir /\ task'[t].pc = "done")
                => tab' = tab
       /\ (tab.byHandler /\ ~tab.loaded /\ tab'.loaded /\ tab.url = HomeUrl)
                => task' = task /\ tab'.url = tab.url
       /\ (tab'.byHandler /\ tab'.url # tab.url)
                => \E t \in Tasks : task[t].pc = "purchase_validate" /\ ~task[t].redir]_vars

\* The page the handler redirected to has loaded, its offers were validated
\* again, and the tab stayed where it was.
C15_Witness ==
    \E t \in Tasks :
        /\ task[t].pc = "done" /\ task[t].redir /\ task[t].act = "kept"
        /\ tab.url = task[t].url /\ tab.byHandler /\ tab.loaded
        /\ \E id \in OfferIds : validation[id] # "none"

\* The mapping has an id and a namespace, and Epic reported that pair as
\* fully owned.
OwnedPair(o, fullyOwned) ==
    /\ o.id # NullStr /\ o.namespace # NullStr
    /\ [namespace |-> o.namespace, offerId |-> o.id] \in fullyOwned

\* The slugs of the mappings whose pair is owned, in the mappings' order.
RECURSIVE SlugsOfOwnedPairs(_, _)
SlugsOfOwnedPairs(map, fullyOwned) ==
    IF map = <<>> THEN <<>>
    ELSE (IF OwnedPair(Head(map), fullyOwned) THEN <<Head(map).slug>> ELSE <<>>)
            \o SlugsOfOwnedPairs(Tail(map), fullyOwned)

\* C16 (as stated): in a successful 'getOwnedSlugs' response a slug is in
\* ownedSlugs iff its egdata mapping has an id and a namespace and the pair
\* (namespace, id) is among Epic's fullyOwnedOffers; mappings without id or
\* namespace are not sent to Epic; ownedSlugs keeps the mappings' order.
C16_Original ==
    [][\A t \in Tasks :
        (task[t].pc = "slugs_validate" /\ task'[t].pc = "done"
            /\ task'[t].reply[1].type = "owned")
        => /\ task'[t].reply[1].ownedSlugs = SlugsOfOwnedPairs(task[t].map, task'[t].val)
           /\ \A o \in task[t].sent : o.offerId # NullStr /\ o.namespace # NullStr
           /\ \A k \in 1..Len(task[t].map) :
                (task[t].map[k].id # NullStr /\ task[t].map[k].namespace # NullStr)
                    <=> [namespace |-> task[t].map[k].namespace,
                         offerId |-> task[t].map[k].id] \in task[t].sent]_vars

\* The callback of a message runs in this step.
CallbackRuns == delivered # NoReply /\ delivered' = NoReply

\* The scan ends in this step: its cached owned slugs are processed.
ScanEnds == scan.pc = "loop" /\ scan'.pc = "idle"

\* C17: when the 'getOwnedSlugs' reply carries an error, or lastError is
\* set, the callback writes no offer-cache entry and adds or removes no
\* indicator; the slugs that needed a check need it as before.
C17_ErrorReplyChangesNothing ==
    [][(CallbackRuns /\ delivered.resp.kind \in {"lastError", "error"})
        => /\ cache' = cache
           /\ cards' = cards
           /\ \A k \in 1..Len(requests[delivered.msg].slugs) :
                LET sl == requests[delivered.msg].slugs[k]
                IN  NeedsCheck(cache[sl], now) => NeedsCheck(cache'[sl], now')]_vars

\* An error reply has arrived for a message that asks about a slug with no
\* cache entry, shown by a card without indicator.
C17_Witness ==
    /\ delivered.resp.kind = "error"
    /\ requests[delivered.msg].slugs = <<SlugX, SlugX>>
    /\ cache[SlugX] = NoEntry
    /\ \A k \in CardElems : cards[k].slug = SlugX /\ cards[k].count = 0

\* The slugs recorded for card k in a list of cards.
RecordedSlugs(run, k) == {run[j].slug : j \in {i \in 1..Len(run) : run[i].element = k}}

\* C18: a card gets an indicator only when the slug the scan recorded for
\* it is in the owned list being processed: the slugs the scan found cached
\* with isOwned true, or the ownedSlugs of the background's reply to that
\* scan's message.
C18_IndicatorOnlyIfOwned ==
    [][/\ \A k \in CardElems :
            cards'[k].count > cards[k].count
            => \/ /\ ScanEnds
                  /\ \E sl \in RecordedSlugs(scan.run, k) :
                        sl \in SeqRange(scan.owned) /\ cards'[k].indicator = UniqueId(sl)
               \/ /\ CallbackRuns /\ delivered.resp.kind = "ok"
                  /\ \E sl \in RecordedSlugs(requests[delivered.msg].run, k) :
                        sl \in delivered.resp.owned /\ cards'[k].indicator = UniqueId(sl)
       /\ Len(scan'.owned) > Len(scan.owned)
            => LET sl == scan'.owned[Len(scan'.owned)]
               IN  cache[sl].present /\ cache[sl].isOwned]_vars

\* The background reported the first card's slug owned and the second's
\* not: the first card alone carries an indicator.
C18_Witness ==
    /\ requests = <<>> /\ delivered = NoReply /\ scan.pc = "idle"
    /\ cards["k1"] = [slug |-> SlugX, indicator |-> UniqueId(SlugX), count |-> 1]
    /\ cards["k2"] = [slug |-> SlugXY, indicator |-> NoIndicator, count |-> 0]
    /\ cache[SlugX] = Entry(TRUE, 0)
    /\ cache[SlugXY] = Entry(FALSE, 0)

\* What C19 asks of a processOwnedSlugs(owned, cur, checked) call made in
\* this step: an isOwned flag is written only for the checked slugs of the
\* cards in cur, as true exactly for the owned ones; no other entry's flag
\* changes, and no entry of a slug outside checked changes at all.
IsOwnedFrame(owned, cur, checked) ==
    \A sl \in CardSlugs :
        LET written == sl \in checked /\ \E j \in 1..Len(cur) : cur[j].slug = sl
        IN  /\ written => cache'[sl].present /\ cache'[sl].isOwned = (sl \in owned)
            /\ ~written => cache'[sl].isOwned = cache[sl].isOwned
            /\ sl \notin checked => cache'[sl] = cache[sl]

\* C19: processOwnedSlugs writes the cached isOwned flag only for the slugs
\* that were checked and belong to a card of the scan, true exactly when
\* the slug is owned, and leaves every other slug's flag as it was.
C19_OnlyCheckedSlugsWritten ==
    [][/\ (CallbackRuns /\ delivered.resp.kind = "ok")
            => IsOwnedFrame(delivered.resp.owned, requests[delivered.msg].run,
                            SeqRange(requests[delivered.msg].slugs))
       /\ (ScanEnds /\ cache' # cache)
            => IsOwnedFrame(SeqRange(scan.owned), scan.run, SeqRange(scan.owned))]_vars

\* An hour after the first slug was checked and found not owned, the second
\* was checked and found owned: the first entry is as it was.
C19_Witness ==
    /\ now = CACHE_DURATION
    /\ cache[SlugX] = Entry(FALSE, 0)
    /\ cache[SlugXY] = Entry(TRUE, CACHE_DURATION)
    /\ cards["k1"].slug = SlugX /\ cards["k1"].count = 0
    /\ cards["k2"].slug = SlugXY /\ cards["k2"].count = 1
    /\ requests = <<>> /\ delivered = NoReply

\* C20: every card holds at most one '.egdata-owned-indicator' element.
C20_AtMostOneIndicator == \A k \in CardElems : cards[k].count <= 1

\* A reply that reports a slug owned is about to be processed for a card
\* that was recorded with that slug and carries an indicator already.
C20_Witness ==
    /\ delivered.resp.kind = "ok"
    /\ \E k \in CardElems :
        /\ cards[k].count = 1
        /\ \E sl \in RecordedSlugs(requests[delivered.msg].run, k) :
                sl \in delivered.resp.owned

\* The loop of the scan visits a card in this step.
CardVisited == scan.pc = "loop" /\ scan.pos <= Len(CardOrder) /\ scan'.pos = scan.pos + 1

\* C21: when the scan visits a card that carries an indicator, the indicator
\* is kept and the card skipped only if it was created for the card's
\* current slug; otherwise it is removed and the card is recorded for
\* processing under its current slug.
C21_Original ==
    [][(CardVisited /\ cards[CardOrder[scan.pos]].count > 0)
        => LET k == CardOrder[scan.pos]
               kept == cards'[k] = cards[k] /\ scan'.run = scan.run
           IN  IF cards[k].indicator = UniqueId(cards[k].slug)
               THEN kept
               ELSE /\ cards'[k].count = 0
                    /\ \E j \in 1..Len(scan'.run) :
                        scan'.run[j] = [element |-> k, slug |-> cards[k].slug]]_vars

\* The run waits inside the paging loop (in fetchLibraryPage).
InLoop(r) == pc[r] \in {"getClient", "getClientCookie", "pageCookie", "pageFetch"}

RECURSIVE NonEmptyIds(_)
\* The non-empty catalogItemId values of a list of records, in order.
NonEmptyIds(recs) ==
    IF recs = <<>> THEN <<>>
    ELSE (IF Head(recs) = NoId THEN <<>> ELSE <<Head(recs)>>) \o NonEmptyIds(Tail(recs))

RECURSIVE PagesFrom(_, _)
\* The records of n pages, following the server's cursors from cursor c.
PagesFrom(c, n) ==
    IF n = 0 \/ c = NoCursor THEN <<>>
    ELSE <<c>> \o PagesFrom(srvNext[c], n - 1)

RECURSIVE CursorAfter(_, _)
\* The cursor reported by the n-th page from cursor c (c itself for n = 0).
CursorAfter(c, n) ==
    IF n = 0 \/ c = NoCursor THEN c ELSE CursorAfter(srvNext[c], n - 1)

\* The chain of cursors from c ends: some page reports no nextCursor.
FiniteChain(c) == \E n \in 0..MaxCursor : CursorAfter(c, n) = NoCursor

\* What the run holds is the first page followed by the pages of the chain
\* from some cursor, in order, and its cursor is the one the last of them
\* reported.
FollowsChain(r) ==
    \E first \in FirstRecs, c \in {NoCursor} \cup Cursors, n \in 0..MaxRecs :
        /\ allRecords[r] = first \o PagesFrom(c, n)
        /\ Len(PagesFrom(c, n)) = n
        /\ nextCursor[r] \in {CursorAfter(c, n), IF n = 0 THEN c ELSE CursorAfter(c, n - 1)}
        /\ InLoop(r) => nextCursor[r] = CursorAfter(c, n) /\ nextCursor[r] # NoCursor

\* Every record the run has fetched is in allRecords (on a chain of cursors
\* that never ends the list stops growing at MaxRecs records).
AllRecorded(r) == Len(allRecords[r]) < MaxRecs \/ FiniteChain(nextCursor[r])

\* One fetchLibraryPage call of run r returns in this step without throwing.
PageReturned(r) == pc[r] = "pageFetch" /\ pc'[r] # "pageFetch" /\ pc'[r] # "failed"

\* C22: syncLibrary follows nextCursor page by page from the given library;
\* it leaves the loop exactly when a page reports no nextCursor or has no
\* records array; the ids for the bulk fetch are the non-empty
\* catalogItemId values of the records of the pages fetched, in page order;
\* and it leaves the loop whenever the chain of cursors is finite.
C22_FetchesAllPages ==
    /\ [](\A r \in Runs : ((InLoop(r) \/ pc[r] = "bulk") /\ AllRecorded(r)) =>
            /\ FollowsChain(r)
            /\ pc[r] = "bulk" =>
                /\ FilterIds(allRecords[r]) = NonEmptyIds(allRecords[r])
                /\ FilterIds(allRecords[r]) # <<>>)
    /\ [][\A r \in Runs :
            /\ (Free(r) /\ pc'[r] = "bulk") => nextCursor'[r] = NoCursor
            /\ (Free(r) /\ InLoop(r)') => nextCursor'[r] # NoCursor
            /\ (PageReturned(r) /\ AllRecorded(r)) =>
                LET c == nextCursor[r]
                    added == allRecords'[r] = allRecords[r] \o <<c>>
                IN  IF InLoop(r)'
                    THEN srvNext[c] # NoCursor /\ nextCursor'[r] = srvNext[c] /\ added
                    ELSE \/ pc'[r] = "skipped"
                         \/ srvNext[c] = NoCursor /\ added
                         \/ allRecords'[r] = allRecords[r]]_vars
    /\ \A r \in Runs : (InLoop(r) /\ FiniteChain(nextCursor[r])) ~> ~InLoop(r)

\* Both pages behind the first one were fetched, in the order of the
\* cursors, and the run is at the bulk fetch.
C22_Witness ==
    /\ pc["r1"] = "bulk"
    /\ nextCursor["r1"] = NoCursor
    /\ allRecords["r1"] = <<NoId, FirstId, 2, 1>>

RECURSIVE Concat(_)
\* The concatenation of a sequence of sequences, in order.
Concat(ss) == IF ss = <<>> THEN <<>> ELSE Head(ss) \o Concat(Tail(ss))

\* ceil(n / d): the least k with k * d >= n.
CeilDiv(n, d) == CHOOSE k \in 0..n : k * d >= n /\ \A j \in 0..(k - 1) : j * d < n

\* C23: fetchBulkData splits the id list into consecutive batches: for n
\* ids there are ceil(n / 100) batches, all but the last of exactly 100 ids
\* and the last of 1 to 100, whose concatenation in order is the id list (so
\* every id is in exactly one batch); the result holds the returned items
\* by id, and a call that fails hands over no partial result.
C23_BatchesOfHundred ==
    /\ [](\A r \in Runs : pc[r] = "bulk" =>
            LET ids == FilterIds(allRecords[r])
                bs == Batches(ids)
            IN  /\ Len(bs) = CeilDiv(Len(ids), 100)
                /\ \A k \in 1..(Len(bs) - 1) : Len(bs[k]) = 100
                /\ \A k \in 1..Len(bs) : Len(bs[k]) \in 1..100
                /\ Concat(bs) = ids)
    /\ [][\A r \in Runs : (pc[r] = "bulk" /\ pc'[r] # "bulk") =>
            LET bs == Batches(FilterIds(allRecords[r]))
            IN  /\ pc'[r] = "failed" => items'[r] = {}
                /\ pc'[r] # "failed" =>
                    \E K \in SUBSET (1..Len(bs)) :
                        items'[r] = UNION {SeqRange(bs[k]) : k \in K}]_vars

\* 201 ids went out in three batches and every batch came back with its
\* items.
C23_Witness ==
    /\ pc["r1"] = "clear"
    /\ Len(allRecords["r1"]) = 201
    /\ Len(Batches(allRecords["r1"])) = 3
    /\ Len(Batches(allRecords["r1"])[3]) = 1
    /\ items["r1"] = SeqRange(allRecords["r1"])
====
